---- MODULE Spec2Model ----
(***************************************************************************)
(* Model of the Flask back end of bigquery-tools: the session ledger and   *)
(* the token_required_custom decorator (app/utils.py), the login route     *)
(* (app/routes/auth.py) and the connection registry routes                 *)
(* (app/routes/api.py), over the tables of app/models.py.                  *)
(*                                                                         *)
(* Time is counted in ticks; TicksPerSec ticks make one second, the        *)
(* resolution at which a JWT stores its iat/exp claims.  Every request is  *)
(* a process that walks through the decorator one database read at a time, *)
(* so that requests interleave with each other and with writers.           *)
(*                                                                         *)
(* flask_jwt_extended and PyJWT are libraries: create_access_token stamps  *)
(* exp = iat + JWT_ACCESS_TOKEN_EXPIRES with iat cut to whole seconds and  *)
(* a fresh uuid4 jti; verification rejects a token once exp <= now.        *)
(***************************************************************************)
EXTENDS Integers, FiniteSets, Sequences, TLC

\* ---------------------------------------------------------------- bounds
MaxTime == 2
TicksPerSec == 2
TTLSecs == 1
MaxTokens == 2
MaxConfigs == 2
MaxFieldList == 2

\* Most Objects created where the metadata store is read.
MaxObjects == 3

\* Longest object name sent to the schema route.
MaxNameLen == 3

\* Most warehouse calls logged.
MaxCalls == 3

\* Request workers: Solo serves one request at a time, Req serves two at once.
Solo == {1}

Req == {1, 2}

\* ------------------------------------------------------------ users table
UserIds == {"u1", "u2"}

EmailOf(u) == IF u = "u1" THEN "a@x" ELSE "b@x"

PasswordOf(u) == IF u = "u1" THEN "p1" ELSE "p2"

Emails == {"", "a@x", "b@x", "z@x"}

Passwords == {"", "p1", "p2"}

ConnNames == {"", "c1", "c2"}

Payloads == {"dict", "emptydict", "nondict"}

VARIABLES now, users, sessions, issued, nextJti, req,
          configs, nextCfg, objects, fields, nextObj, nextFld, bq,
          gemini_api_keys

vars == <<now, users, sessions, issued, nextJti, req,
          configs, nextCfg, objects, fields, nextObj, nextFld, bq, gemini_api_keys>>

\* ----------------------------------------------------------------- tokens
\* A bearer token as flask_jwt_extended encodes it: jti (a fresh uuid4), the
\* identity claim sub, the expiry claim exp, and whether the signature
\* verifies under JWT_SECRET_KEY.
NoHeader == [jti |-> 0, sub |-> "none", exp |-> 0, sig |-> FALSE]

Floor(t) == (t \div TicksPerSec) * TicksPerSec

\* config.py:14  JWT_ACCESS_TOKEN_EXPIRES, a whole number of days
TTL == TTLSecs * TicksPerSec

\* auth.py:43  create_access_token(identity=str(user.id))
\* Variant: every token is minted with the identity of the first user.
create_access_token_first_user(identity, jti, t) ==
    [jti |-> jti, sub |-> "u1", exp |-> Floor(t) + TTL, sig |-> TRUE]

create_access_token(identity, jti, t) ==
    [jti |-> jti, sub |-> identity, exp |-> Floor(t) + TTL, sig |-> TRUE]

\* A token that was not signed with JWT_SECRET_KEY (forged, altered or garbled).
Forged == [jti |-> 0, sub |-> "u1", exp |-> MaxTime + 1, sig |-> FALSE]

\* ------------------------------------------------------------- responses
Resp(cause, status, message) ==
    [cause |-> cause, status |-> status, message |-> message, user_id |-> "none",
     token |-> NoHeader, expires_at |-> 0, body |-> <<>>]

NoRes == Resp("none", 0, "")

NoRow == [token |-> NoHeader, user_id |-> "none", expires_at |-> 0]

Idle == [pc |-> "idle", op |-> "none", tok |-> NoHeader, entry |-> NoRow,
         arg |-> <<>>, res |-> NoRes, late |-> FALSE, local |-> <<>>]

\* Variant: any candidate password is accepted.
check_password_any(u, password_text) == TRUE

\* models.py:19-20  User.check_password: the stored hash verifies the candidate
check_password(u, password_text) == PasswordOf(u) = password_text

\* The identity claim of a verified token; login mints it as str(user.id).
get_jwt_identity(tok) == tok.sub

\* ------------------------------------------------------ Session (models.py)
\* Variant: the comparison of is_expired is turned around.
is_expired_inverted(row, t) == t < row.expires_at

\* Session.is_expired: datetime.utcnow() > self.expires_at
is_expired(row, t) == t > row.expires_at

\* Session.__init__: a row built without expires_at gets utcnow() + TTL
None == -1

\* Variant: the row takes the token's exp claim instead of the given expiry.
SessionRowFromToken(user_id, token, expires_at, t) ==
    [token |-> token, user_id |-> user_id, expires_at |-> token.exp]

SessionRow(user_id, token, expires_at, t) ==
    [token |-> token, user_id |-> user_id,
     expires_at |-> IF expires_at = None THEN t + TTL ELSE expires_at]

\* Variant: single-session enforcement, the user's older rows are dropped.
InsertSessionSingle(ledger, row) ==
    {s \in ledger : s.user_id # row.user_id} \cup {row}

\* db.session.add(new_session); db.session.commit()
InsertSession(ledger, row) == ledger \cup {row}

\* Variant: the ledger is searched by the token's user, not by the token.
LookupByUser(ledger, tok) ==
    IF \E s \in ledger : s.user_id = tok.sub
    THEN CHOOSE s \in ledger : s.user_id = tok.sub
    ELSE NoRow

\* db.session.query(Session).filter_by(token=...).first()
Lookup(ledger, tok) ==
    IF \E s \in ledger : s.token = tok
    THEN CHOOSE s \in ledger : s.token = tok
    ELSE NoRow

\* --------------------------------------------- verify_jwt_in_request (utils.py:15)
\* The default error handlers of flask_jwt_extended answer for the decorator.
VerifyJwt(tok, t) ==
    IF tok = NoHeader THEN Resp("MissingToken", 401, "Missing Authorization Header")
    ELSE IF ~tok.sig THEN Resp("InvalidToken", 422, "Signature verification failed")
    ELSE IF tok.exp <= t THEN Resp("TokenExpired", 401, "Token has expired")
    ELSE NoRes

\* Variant: a missing row is reported with the message of an expired row.
RevokedRespGeneric ==
    Resp("SessionRevoked", 401, "Token has expired according to server session records.")

RevokedResp ==
    Resp("SessionRevoked", 401, "Token not found in active sessions or has been revoked.")

ExpiredResp ==
    Resp("SessionExpired", 401, "Token has expired according to server session records.")

NoUserResp ==
    Resp("PrincipalNotFound", 401, "User associated with this token no longer exists.")

\* What token_required_custom answers when nothing else runs during the call.
AuthResult(tok, t, ledger, usrs) ==
    IF VerifyJwt(tok, t) # NoRes THEN VerifyJwt(tok, t)
    ELSE IF Lookup(ledger, tok) = NoRow THEN RevokedResp
    ELSE IF is_expired(Lookup(ledger, tok), t) THEN ExpiredResp
    ELSE IF tok.sub \notin usrs THEN NoUserResp
    ELSE NoRes

\* ------------------------------------------------------------------- Init
Init ==
    /\ now = 0
    /\ users = UserIds
    /\ sessions = {}
    /\ issued = {}
    /\ nextJti = 1
    /\ req = [r \in Req |-> Idle]
    /\ configs = {}
    /\ nextCfg = 1
    /\ objects = {}
    /\ fields = {}
    /\ nextObj = 1
    /\ nextFld = 1
    /\ bq = <<>>
    /\ gemini_api_keys = {}

\* ------------------------------------------------------------ environment
Tick ==
    /\ now < MaxTime
    /\ now' = now + 1
    /\ UNCHANGED <<users, sessions, issued, nextJti, req, configs, nextCfg, objects, fields, nextObj, nextFld, bq, gemini_api_keys>>

\* Logout / administrative revocation: the Session row of a token is deleted.
RevokeSession(s) ==
    /\ s \in sessions
    /\ sessions' = sessions \ {s}
    /\ UNCHANGED <<now, users, issued, nextJti, req, configs, nextCfg, objects, fields, nextObj, nextFld, bq, gemini_api_keys>>

\* Server-side TTL policy change: the row's expires_at is cut to the present.
ExpireSession(s) ==
    /\ s \in sessions
    /\ s.expires_at > now
    /\ sessions' = (sessions \ {s}) \cup {[s EXCEPT !.expires_at = now]}
    /\ UNCHANGED <<now, users, issued, nextJti, req, configs, nextCfg, objects, fields, nextObj, nextFld, bq, gemini_api_keys>>

\* A users row removed out of band after tokens were issued.
DeleteUser(u) ==
    /\ u \in users
    /\ users' = users \ {u}
    /\ UNCHANGED <<now, sessions, issued, nextJti, req, configs, nextCfg, objects, fields, nextObj, nextFld, bq, gemini_api_keys>>

\* ------------------------------------------------------------------ login
\* datetime.isoformat(): the instant written out as text
isoformat(t) == [iso |-> t]

Answer(r, op, arg, res) ==
    req' = [req EXCEPT ![r] = [Idle EXCEPT !.pc = "done", !.op = op, !.arg = arg,
                                          !.res = res]]

\* auth.py:20-21  no user has the email
\* Variant: an unknown email gets an answer of its own.
UnknownEmailRespRevealing == Resp("NotFound", 404, "User not found")

UnknownEmailResp == Resp("InvalidCredentials", 401, "Invalid credentials")

\* auth.py:38-39  the user exists and check_password fails
WrongPasswordResp == Resp("InvalidCredentials", 401, "Invalid credentials")

\* auth.py:9-54  POST /api/auth/login
login(r, email, password) ==
    /\ req[r].pc \in {"idle", "done"}
    /\ IF email = "" \/ password = ""
       THEN /\ Answer(r, "login", <<email, password>>,
                      Resp("BadRequest", 400, "Email and password are required"))
            /\ UNCHANGED <<sessions, issued, nextJti>>
       ELSE IF ~\E u \in users : EmailOf(u) = email
       THEN /\ Answer(r, "login", <<email, password>>, UnknownEmailResp)
            /\ UNCHANGED <<sessions, issued, nextJti>>
       ELSE LET user == CHOOSE u \in users : EmailOf(u) = email
                access_token == create_access_token(user, nextJti, now)
                expires_at == now + TTL
                new_session == SessionRow(user, access_token, expires_at, now)
            IN  IF ~check_password(user, password)
                THEN /\ Answer(r, "login", <<email, password>>, WrongPasswordResp)
                     /\ UNCHANGED <<sessions, issued, nextJti>>
                ELSE /\ nextJti <= MaxTokens
                     /\ nextJti' = nextJti + 1
                     /\ IF \E s \in sessions : s.token = access_token
                        THEN \* unique constraint on sessions.token: the commit raises
                             /\ Answer(r, "login", <<email, password>>,
                                       Resp("InternalError", 500, "IntegrityError"))
                             /\ UNCHANGED <<sessions, issued>>
                        ELSE /\ sessions' = InsertSession(sessions, new_session)
                             /\ issued' = issued \cup
                                    {[token |-> access_token, owner |-> user]}
                             /\ Answer(r, "login", <<email, password>>,
                                       [Resp("Ok", 200, "") EXCEPT
                                           !.token = access_token,
                                           !.expires_at = isoformat(expires_at)])
    /\ UNCHANGED <<now, users, configs, nextCfg, objects, fields, nextObj, nextFld, bq, gemini_api_keys>>

\* -------------------------------------------------- token_required_custom
IssuedTokens == {i.token : i \in issued}

Presentable == IssuedTokens \cup {Forged, NoHeader}

Finish(r, res) ==
    req' = [req EXCEPT ![r].pc = "done", ![r].res = res]

\* utils.py:15  verify_jwt_in_request()
AuthVerify(r, op, tok, arg) ==
    /\ req[r].pc \in {"idle", "done"}
    /\ LET v == VerifyJwt(tok, now)
           started == [Idle EXCEPT !.op = op, !.tok = tok, !.arg = arg,
                                   !.late = (tok \in IssuedTokens
                                             /\ \A s \in sessions : s.token # tok)]
       IN  req' = [req EXCEPT ![r] =
                     IF v # NoRes THEN [started EXCEPT !.pc = "done", !.res = v]
                     ELSE [started EXCEPT !.pc = "ledger"]]
    /\ UNCHANGED <<now, users, sessions, issued, nextJti, configs, nextCfg, objects, fields, nextObj, nextFld, bq, gemini_api_keys>>

\* Variant: the user is resolved before the ledger is consulted.
AuthLookupPrincipalFirst(r) ==
    /\ req[r].pc = "ledger"
    /\ LET session_entry == Lookup(sessions, req[r].tok)
       IN  IF get_jwt_identity(req[r].tok) \notin users
           THEN Finish(r, NoUserResp)
           ELSE IF session_entry = NoRow
           THEN Finish(r, RevokedResp)
           ELSE req' = [req EXCEPT ![r].pc = "expiry", ![r].entry = session_entry]
    /\ UNCHANGED <<now, users, sessions, issued, nextJti, configs, nextCfg, objects, fields, nextObj, nextFld, bq, gemini_api_keys>>

\* utils.py:18-29  look the token up in the sessions table
\* Variant: a token without a Session row goes on to the principal check.
AuthLookupOptional(r) ==
    /\ req[r].pc = "ledger"
    /\ LET session_entry == Lookup(sessions, req[r].tok)
       IN  IF session_entry = NoRow
           THEN req' = [req EXCEPT ![r].pc = "principal"]
           ELSE req' = [req EXCEPT ![r].pc = "expiry", ![r].entry = session_entry]
    /\ UNCHANGED <<now, users, sessions, issued, nextJti, configs, nextCfg, objects, fields, nextObj, nextFld, bq, gemini_api_keys>>

AuthLookup(r) ==
    /\ req[r].pc = "ledger"
    /\ LET session_entry == Lookup(sessions, req[r].tok)
       IN  IF session_entry = NoRow
           THEN Finish(r, RevokedResp)
           ELSE req' = [req EXCEPT ![r].pc = "expiry", ![r].entry = session_entry]
    /\ UNCHANGED <<now, users, sessions, issued, nextJti, configs, nextCfg, objects, fields, nextObj, nextFld, bq, gemini_api_keys>>

\* Variant: an expired row is purged from the ledger when it is met.
AuthExpiryPurge(r) ==
    /\ req[r].pc = "expiry"
    /\ IF is_expired(req[r].entry, now)
       THEN /\ req' = [req EXCEPT ![r].pc = "done", ![r].res = ExpiredResp,
                                  ![r].entry = NoRow]
            /\ sessions' = sessions \ {req[r].entry}
       ELSE /\ req' = [req EXCEPT ![r].pc = "principal", ![r].entry = NoRow]
            /\ UNCHANGED sessions
    /\ UNCHANGED <<now, users, issued, nextJti, configs, nextCfg, objects, fields, nextObj, nextFld, bq, gemini_api_keys>>

\* utils.py:31-33  session_entry.is_expired(); the row is not read afterwards
AuthExpiry(r) ==
    /\ req[r].pc = "expiry"
    /\ IF is_expired(req[r].entry, now)
       THEN req' = [req EXCEPT ![r].pc = "done", ![r].res = ExpiredResp,
                               ![r].entry = NoRow]
       ELSE req' = [req EXCEPT ![r].pc = "principal", ![r].entry = NoRow]
    /\ UNCHANGED <<now, users, sessions, issued, nextJti, configs, nextCfg, objects, fields, nextObj, nextFld, bq, gemini_api_keys>>

\* utils.py:35-51  resolve get_jwt_identity() to a User, then run the route
AuthPrincipal(r) ==
    /\ req[r].pc = "principal"
    /\ IF get_jwt_identity(req[r].tok) \notin users
       THEN Finish(r, NoUserResp)
       ELSE req' = [req EXCEPT ![r].pc = "handler"]
    /\ UNCHANGED <<now, users, sessions, issued, nextJti, configs, nextCfg, objects, fields, nextObj, nextFld, bq, gemini_api_keys>>

\* api.py:27-33  GET /api/data, the plain protected route
get_data(r) ==
    /\ req[r].pc = "handler"
    /\ req[r].op = "data"
    /\ Finish(r, [Resp("Ok", 200, "This is protected data.")
                    EXCEPT !.user_id = get_jwt_identity(req[r].tok)])
    /\ UNCHANGED <<now, users, sessions, issued, nextJti, configs, nextCfg, objects, fields, nextObj, nextFld, bq, gemini_api_keys>>

\* --------------------------------------------------- connection registry
\* Variant: the existence query forgets the user_id filter.
ExistingConfigAnyUser(cfgs, user_id, connection_name) ==
    \E c \in cfgs : c.connection_name = connection_name

\* api.py:107  BigQueryConfig.query.filter_by(user_id=..., connection_name=...).first()
ExistingConfig(cfgs, user_id, connection_name) ==
    \E c \in cfgs : c.user_id = user_id /\ c.connection_name = connection_name

\* Variant: the table has no unique constraint.
uq_user_connection_name_missing(cfgs, row) == TRUE

\* models.py:54  UniqueConstraint('user_id', 'connection_name')
uq_user_connection_name(cfgs, row) ==
    \A c \in cfgs : ~(c.user_id = row.user_id /\ c.connection_name = row.connection_name)

\* api.py:70-109  POST /api/config up to the query for an existing connection
upload_config(r) ==
    /\ req[r].pc = "handler"
    /\ req[r].op = "upload"
    /\ LET current_user == get_jwt_identity(req[r].tok)
           connection_name == req[r].arg[1]
           gcp_key_json_data == req[r].arg[2]
       IN  IF gcp_key_json_data = "nondict"
           THEN Finish(r, Resp("ValidationError", 400, "gcp_key_json must be a JSON object"))
           ELSE IF connection_name = ""
           THEN Finish(r, Resp("ValidationError", 400, "connection_name is required"))
           ELSE IF gcp_key_json_data = "emptydict"
           THEN Finish(r, Resp("ValidationError", 400,
                               "gcp_key_json (or gcp_key_file) is required"))
           ELSE IF ExistingConfig(configs, current_user, connection_name)
           THEN Finish(r, Resp("Conflict", 409, "A connection with this name already exists."))
           ELSE req' = [req EXCEPT ![r].pc = "insert"]
    /\ UNCHANGED <<now, users, sessions, issued, nextJti, configs, nextCfg, objects, fields, nextObj, nextFld, bq, gemini_api_keys>>

\* api.py:111-123  db.session.add(new_config); db.session.commit()
upload_config_commit(r) ==
    /\ req[r].pc = "insert"
    /\ req[r].op = "upload"
    /\ LET new_config == [id |-> nextCfg,
                          user_id |-> get_jwt_identity(req[r].tok),
                          gcp_key_json |-> req[r].arg[2],
                          connection_name |-> req[r].arg[1]]
       IN  IF uq_user_connection_name(configs, new_config)
           THEN /\ configs' = configs \cup {new_config}
                /\ nextCfg' = nextCfg + 1
                /\ Finish(r, Resp("Created", 201, "BigQuery configuration saved successfully."))
           ELSE \* IntegrityError: rolled back, reported as a server error
                /\ Finish(r, Resp("InternalError", 500, "Failed to save configuration"))
                /\ UNCHANGED <<configs, nextCfg>>
    /\ UNCHANGED <<now, users, sessions, issued, nextJti, objects, fields, nextObj, nextFld, bq, gemini_api_keys>>

\* ------------------------------------------------- schema metadata store
\* A JSON object is a function from its keys; None is what dict.get answers
\* for a key that is not there, and what JSON null parses to.
NoneText == "<None>"

EmptyDict == [k \in {} |-> NoneText]

Get(d, k) == IF k \in DOMAIN d THEN d[k] ELSE NoneText

\* Python truthiness of a text value: None and "" are falsy.
Truthy(v) == v \notin {NoneText, ""}

ObjectNames == {"t1"}

FieldNames == {"f1", "f2"}

\* One element of the "fields" list: field_name and field_description are
\* both optional keys.
FieldInfos ==
    {[field_description |-> "d1"]}
      \cup {[field_name |-> n] : n \in FieldNames}
      \cup {[field_name |-> n, field_description |-> v] : n \in FieldNames, v \in {"", "d1"}}

\* The lists of at most n elements.
RECURSIVE ListsUpTo(_)
ListsUpTo(n) ==
    IF n = 0 THEN {<<>>}
    ELSE LET shorter == ListsUpTo(n - 1)
         IN  shorter \cup {Append(l, x) : l \in {m \in shorter : Len(m) = n - 1},
                                           x \in FieldInfos}

FieldLists == ListsUpTo(MaxFieldList)

\* Bodies of POST /api/table_schema_update for connection c.
ObjectDescriptions == {NoneText, "", "d1"}

UpsertData(c) ==
    {[object_name |-> "t1"], [connection_id |-> c, object_name |-> ""]}
      \cup {[connection_id |-> c, object_name |-> n] : n \in ObjectNames}
      \cup {[connection_id |-> c, object_name |-> n, object_description |-> v] :
               n \in ObjectNames, v \in ObjectDescriptions}
      \cup {[connection_id |-> c, object_name |-> n, fields |-> l] :
               n \in ObjectNames, l \in FieldLists}
      \cup {[connection_id |-> c, object_name |-> n, object_description |-> v,
              fields |-> l] : n \in ObjectNames, v \in ObjectDescriptions, l \in FieldLists}

\* Variant: the description is assigned whether or not the key was sent.
SetFieldDescriptionAlways(f, field_info) ==
    [f EXCEPT !.field_description = Get(field_info, "field_description")]

\* api.py:342-343  elif 'field_description' in field_info
SetFieldDescription(f, field_info) ==
    IF "field_description" \in DOMAIN field_info
    THEN [f EXCEPT !.field_description = Get(field_info, "field_description")]
    ELSE f

\* Variant: the list replaces the Fields of the Object.
UpsertFieldReplacing(flds, object_id, field_info, new_id) ==
    {f \in flds : f.object_id # object_id}
      \cup {[id |-> new_id, object_id |-> object_id,
             field_name |-> Get(field_info, "field_name"),
             field_description |-> Get(field_info, "field_description")]}

\* api.py:330-343  one valid element of the list: find the Field, create it or
\* update its description
\* Variant: the query never finds the Field.
FindFieldNone(flds, object_id, field_name) == {}

\* api.py:330-333  Field.query.filter_by(object_id, field_name).first(): the
\* row with the smallest id stands for the first row the query returns
FindField(flds, object_id, field_name) ==
    LET found == {f \in flds : f.object_id = object_id /\ f.field_name = field_name}
    IN  {f \in found : \A g \in found : f.id <= g.id}

UpsertField(flds, object_id, field_info, new_id) ==
    LET field_name == Get(field_info, "field_name")
        db_field == FindField(flds, object_id, field_name)
    IN  IF db_field = {}
        THEN flds \cup {[id |-> new_id, object_id |-> object_id, field_name |-> field_name,
                         field_description |-> Get(field_info, "field_description")]}
        ELSE (flds \ db_field) \cup {SetFieldDescription(f, field_info) : f \in db_field}

\* api.py:320-343  the loop over fields_data from element i on; ok is FALSE when
\* an element has no field_name (the handler rolls back and returns)
RECURSIVE UpsertFields(_, _, _, _, _)
UpsertFields(flds, object_id, fields_data, i, new_id) ==
    IF i > Len(fields_data)
    THEN [ok |-> TRUE, fields |-> flds, nextFld |-> new_id]
    ELSE IF ~Truthy(Get(fields_data[i], "field_name"))
    THEN [ok |-> FALSE, fields |-> flds, nextFld |-> new_id]
    ELSE LET next == UpsertField(flds, object_id, fields_data[i], new_id)
         IN  UpsertFields(next, object_id, fields_data, i + 1,
                          IF \E f \in next : f.id = new_id THEN new_id + 1 ELSE new_id)

\* Variant: the description is assigned whether or not the key was sent.
SetObjectDescriptionAlways(o, data) ==
    [o EXCEPT !.object_description = Get(data, "object_description")]

\* api.py:317-318  elif 'object_description' in data
SetObjectDescription(o, data) ==
    IF "object_description" \in DOMAIN data
    THEN [o EXCEPT !.object_description = Get(data, "object_description")]
    ELSE o

\* api.py:299-303  Object.query.filter_by(user_id, connection_id, object_name)
FindObject(objs, user_id, connection_id, object_name) ==
    {o \in objs : /\ o.user_id = user_id
                  /\ o.connection_id = connection_id
                  /\ o.object_name = object_name}

\* api.py:273-274  request.get_json(): the handler reads the body, one of bodies
update_table_schema_get_json(r, bodies) ==
    /\ req[r].pc = "handler"
    /\ req[r].op = "upsert"
    /\ \E data \in bodies : req' = [req EXCEPT ![r].pc = "body", ![r].arg = data]
    /\ UNCHANGED <<now, users, sessions, issued, nextJti, configs, nextCfg, objects, fields, nextObj, nextFld, bq, gemini_api_keys>>

\* api.py:293  BigQueryConfig.query.filter_by(id=connection_id,
\*             user_id=current_user.id).first()
\* Variant: the connection is looked up by its id alone.
config_by_id(cfgs, connection_id, user_id) ==
    {c \in cfgs : c.id = connection_id}

config(cfgs, connection_id, user_id) ==
    {c \in cfgs : c.id = connection_id /\ c.user_id = user_id}

\* Variant: the work flushed before the error stays in the database.
RollbackKeepsPending(committed, pending) == pending

\* api.py:327  db.session.rollback(): the transaction's writes are undone
Rollback(committed, pending) == committed

\* api.py:278-355  the handler on the body it read, as one transaction on the
\* tables db: the answer and the tables afterwards.  It finds or creates the
\* Object, walks the fields list and commits, or rolls back at the first
\* element without a field_name.
UpsertTransaction(db, cfgs, current_user, data) ==
    IF data = EmptyDict
    THEN [db |-> db, res |-> Resp("ValidationError", 400, "Request body must be JSON.")]
    ELSE IF "connection_id" \notin DOMAIN data
    THEN [db |-> db, res |-> Resp("ValidationError", 400, "connection_id is required.")]
    ELSE IF ~Truthy(Get(data, "object_name"))
    THEN [db |-> db, res |-> Resp("ValidationError", 400, "object_name is required.")]
    ELSE IF config(cfgs, data.connection_id, current_user) = {}
    THEN [db |-> db, res |-> Resp("NotFoundOrForbidden", 404,
                                  "BigQuery configuration not found or access denied.")]
    ELSE
      LET found == FindObject(db.objects, current_user, data.connection_id,
                              data.object_name)
          db_object ==
              IF found = {}
              THEN [id |-> db.nextObj, user_id |-> current_user,
                    connection_id |-> data.connection_id,
                    object_name |-> data.object_name,
                    object_description |-> Get(data, "object_description")]
              ELSE SetObjectDescription(CHOOSE o \in found : TRUE, data)
          fields_data == IF "fields" \in DOMAIN data THEN data.fields ELSE <<>>
          walked == UpsertFields(db.fields, db_object.id, fields_data, 1, db.nextFld)
          pending == [objects |-> (db.objects \ found) \cup {db_object},
                      fields |-> walked.fields,
                      nextObj |-> IF found = {} THEN db.nextObj + 1 ELSE db.nextObj,
                      nextFld |-> walked.nextFld]
      IN  IF walked.ok
          THEN [db |-> pending,
                res |-> [Resp("Ok", 200, "Description updated successfully.")
                           EXCEPT !.body = [object_id |-> db_object.id]]]
          ELSE [db |-> Rollback(db, pending),
                res |-> Resp("ValidationError", 400,
                             "field_name is required for each field in fields list.")]

\* The metadata tables and their id generators.
MetaDb == [objects |-> objects, fields |-> fields, nextObj |-> nextObj, nextFld |-> nextFld]

\* api.py:270-355  POST /api/table_schema_update after the body was read
update_table_schema_description(r) ==
    /\ req[r].pc = "body"
    /\ req[r].op = "upsert"
    /\ LET out == UpsertTransaction(MetaDb, configs, get_jwt_identity(req[r].tok),
                                    req[r].arg)
       IN  /\ objects' = out.db.objects
           /\ fields' = out.db.fields
           /\ nextObj' = out.db.nextObj
           /\ nextFld' = out.db.nextFld
           /\ Finish(r, out.res)
    /\ UNCHANGED <<now, users, sessions, issued, nextJti, configs, nextCfg, bq, gemini_api_keys>>

\* ---------------------------------- the upsert transaction, statement-wise
\* Under two workers the statements of one transaction interleave with those
\* of the other: each query reads what is committed at that moment, the rows
\* a transaction writes become visible at its commit.

\* models.py:75-77  UniqueConstraint('user_id', 'connection_id', 'object_name')
uq_user_connection_object_name(objs, row) ==
    \A o \in objs : ~(/\ o.user_id = row.user_id
                      /\ o.connection_id = row.connection_id
                      /\ o.object_name = row.object_name)

\* api.py:278-303  the checks on the body, the query for the connection and
\* the query for the Object
upsert_lookup(r) ==
    /\ req[r].pc = "body"
    /\ req[r].op = "upsert"
    /\ LET data == req[r].arg
           current_user == get_jwt_identity(req[r].tok)
       IN  IF data = EmptyDict
           THEN Finish(r, Resp("ValidationError", 400, "Request body must be JSON."))
           ELSE IF "connection_id" \notin DOMAIN data
           THEN Finish(r, Resp("ValidationError", 400, "connection_id is required."))
           ELSE IF ~Truthy(Get(data, "object_name"))
           THEN Finish(r, Resp("ValidationError", 400, "object_name is required."))
           ELSE IF \A c \in configs : ~(c.id = data.connection_id /\ c.user_id = current_user)
           THEN Finish(r, Resp("NotFoundOrForbidden", 404,
                               "BigQuery configuration not found or access denied."))
           ELSE req' = [req EXCEPT ![r].pc = "flush",
                                   ![r].local = FindObject(objects, current_user,
                                                           data.connection_id, data.object_name)]
    /\ UNCHANGED <<now, users, sessions, issued, nextJti, configs, nextCfg, objects, fields, nextObj, nextFld, bq, gemini_api_keys>>

\* The Object row a transaction has inserted and not yet committed.
Inserting(o) ==
    IF req[o].op = "upsert" /\ req[o].pc = "commit" /\ req[o].local.isNew
    THEN {req[o].local.object}
    ELSE {}

\* api.py:305-343  a new Object is inserted by the flush (the insert waits for
\* a transaction that holds the same key, and fails once that one has
\* committed), an Object found gets its description; then the fields list is
\* walked against the committed Fields
upsert_walk(r) ==
    /\ req[r].pc = "flush"
    /\ req[r].op = "upsert"
    /\ LET data == req[r].arg
           found == req[r].local
           isNew == found = {}
           db_object ==
               IF isNew
               THEN [id |-> nextObj, user_id |-> get_jwt_identity(req[r].tok),
                     connection_id |-> data.connection_id,
                     object_name |-> data.object_name,
                     object_description |-> Get(data, "object_description")]
               ELSE SetObjectDescription(CHOOSE o \in found : TRUE, data)
           fields_data == IF "fields" \in DOMAIN data THEN data.fields ELSE <<>>
           walked == UpsertFields(fields, db_object.id, fields_data, 1, nextFld)
       IN  /\ isNew => \A o \in Req \ {r} : uq_user_connection_object_name(Inserting(o), db_object)
           /\ IF isNew /\ ~uq_user_connection_object_name(objects, db_object)
              THEN \* IntegrityError at the flush: rolled back, api.py:347-350
                   /\ Finish(r, Resp("InternalError", 500, "A database error occurred"))
                   /\ UNCHANGED <<nextObj, nextFld>>
              ELSE IF ~walked.ok
              THEN /\ Finish(r, Resp("ValidationError", 400,
                                     "field_name is required for each field in fields list."))
                   /\ UNCHANGED <<nextObj, nextFld>>
              ELSE /\ req' = [req EXCEPT ![r].pc = "commit",
                                         ![r].local = [isNew |-> isNew, object |-> db_object,
                                                       fields |-> walked.fields \ fields]]
                   /\ nextObj' = IF isNew THEN nextObj + 1 ELSE nextObj
                   /\ nextFld' = walked.nextFld
    /\ UNCHANGED <<now, users, sessions, issued, nextJti, configs, nextCfg, objects, fields, bq, gemini_api_keys>>

\* api.py:345-346  db.session.commit(): the rows written replace the rows of
\* the same id
upsert_commit(r) ==
    /\ req[r].pc = "commit"
    /\ req[r].op = "upsert"
    /\ LET tx == req[r].local
       IN  /\ objects' = {o \in objects : o.id # tx.object.id} \cup {tx.object}
           /\ fields' = {f \in fields : \A g \in tx.fields : g.id # f.id} \cup tx.fields
           /\ req' = [req EXCEPT ![r].pc = "done", ![r].local = <<>>,
                                 ![r].res = [Resp("Ok", 200, "Description updated successfully.")
                                               EXCEPT !.body = [object_id |-> tx.object.id]]]
    /\ UNCHANGED <<now, users, sessions, issued, nextJti, configs, nextCfg, nextObj, nextFld, bq, gemini_api_keys>>

\* ---------------------------------------------------- deleting a connection
NotFoundOrForbidden == Resp("NotFoundOrForbidden", 404, "Configuration not found or access denied.")

\* Variant: the row is looked up by id alone and ownership is tested afterwards.
delete_config_owner_checked_late(r) ==
    /\ req[r].pc = "handler"
    /\ req[r].op = "delete"
    /\ LET current_user == get_jwt_identity(req[r].tok)
           config_id == req[r].arg[1]
       IN  IF \A c \in configs : c.id # config_id
           THEN Finish(r, NotFoundOrForbidden)
           ELSE IF \A c \in configs : c.id = config_id => c.user_id # current_user
           THEN Finish(r, Resp("Forbidden", 403, "Access denied."))
           ELSE req' = [req EXCEPT ![r].pc = "delete"]
    /\ UNCHANGED <<now, users, sessions, issued, nextJti, configs, nextCfg, objects, fields, nextObj, nextFld, bq, gemini_api_keys>>

\* api.py:548-558  DELETE /api/config/<id>: the row is queried by id and user_id
delete_config(r) ==
    /\ req[r].pc = "handler"
    /\ req[r].op = "delete"
    /\ LET current_user == get_jwt_identity(req[r].tok)
           config_id == req[r].arg[1]
       IN  IF \A c \in configs : ~(c.id = config_id /\ c.user_id = current_user)
           THEN Finish(r, NotFoundOrForbidden)
           ELSE req' = [req EXCEPT ![r].pc = "delete"]
    /\ UNCHANGED <<now, users, sessions, issued, nextJti, configs, nextCfg, objects, fields, nextObj, nextFld, bq, gemini_api_keys>>

\* api.py:563  db.session.delete(config_to_delete): the rows left in the table
DeleteRows(cfgs, config_id, user_id) ==
    {c \in cfgs : ~(c.id = config_id /\ c.user_id = user_id)}

\* models.py:64,71  Object.connection_id is NOT NULL and the objects backref has
\* no delete cascade: the flush of the delete sets connection_id of every Object
\* of the connection to NULL, which the column refuses (IntegrityError).
ObjectsBlockDelete(objs, config_id) == \E o \in objs : o.connection_id = config_id

\* api.py:560-576  db.session.delete(config_to_delete); db.session.commit()
delete_config_commit(r) ==
    /\ req[r].pc = "delete"
    /\ req[r].op = "delete"
    /\ LET config_id == req[r].arg[1]
       IN  IF ObjectsBlockDelete(objects, config_id)
           THEN \* SQLAlchemyError: rolled back, reported as a server error
                /\ Finish(r, Resp("InternalError", 500,
                                  "Failed to delete configuration due to a database error"))
                /\ UNCHANGED configs
           ELSE /\ configs' = DeleteRows(configs, config_id, get_jwt_identity(req[r].tok))
                /\ Finish(r, Resp("Ok", 200, "Configuration deleted successfully."))
    /\ UNCHANGED <<now, users, sessions, issued, nextJti, nextCfg, objects, fields, nextObj, nextFld, bq, gemini_api_keys>>

\* The response leaves; the worker is free again.
Respond(r) ==
    /\ req[r].pc = "done"
    /\ req' = [req EXCEPT ![r] = Idle]
    /\ UNCHANGED <<now, users, sessions, issued, nextJti, configs, nextCfg, objects, fields, nextObj, nextFld, bq, gemini_api_keys>>

\* --------------------------------------------- reading the metadata store
\* str() of a non-negative integer: its decimal digits.
Digits == <<"0", "1", "2", "3", "4", "5", "6", "7", "8", "9">>

RECURSIVE str(_)
str(n) ==
    IF n < 10 THEN <<Digits[n + 1]>>
    ELSE str(n \div 10) \o <<Digits[(n % 10) + 1]>>

\* The rows of a query in primary-key order.
RECURSIVE SeqById(_)
SeqById(rows) ==
    IF rows = {} THEN <<>>
    ELSE LET first == CHOOSE x \in rows : \A y \in rows : x.id <= y.id
         IN  <<first>> \o SeqById(rows \ {first})

\* models.py:69  Object.fields
ObjectFields(flds, db_object) == {f \in flds : f.object_id = db_object.id}

\* api.py:371,377  `x if x is not None else ""`
NoneToEmpty(v) == IF v = NoneText THEN "" ELSE v

\* Variant: the query for the Objects has no filter.
UserObjectsUnfiltered(objs, user_id) == objs

\* api.py:363  Object.query.filter_by(user_id=current_user.id).all()
UserObjects(objs, user_id) == {o \in objs : o.user_id = user_id}

\* api.py:358-381  GET /api/objects_with_fields
get_objects_with_fields(r) ==
    /\ req[r].pc = "handler"
    /\ req[r].op = "list"
    /\ LET current_user == get_jwt_identity(req[r].tok)
           user_objects == SeqById(UserObjects(objects, current_user))
           fields_list(obj) ==
               LET rows == SeqById(ObjectFields(fields, obj))
               IN  [i \in 1..Len(rows) |->
                      [id |-> str(rows[i].id),
                       field_name |-> rows[i].field_name,
                       field_description |-> NoneToEmpty(rows[i].field_description)]]
           result == [i \in 1..Len(user_objects) |->
                        [id |-> str(user_objects[i].id),
                         connection_id |-> str(user_objects[i].connection_id),
                         object_name |-> user_objects[i].object_name,
                         object_description |->
                             NoneToEmpty(user_objects[i].object_description),
                         fields |-> fields_list(user_objects[i])]]
       IN  Finish(r, [Resp("Ok", 200, "") EXCEPT !.body = result])
    /\ UNCHANGED <<now, users, sessions, issued, nextJti, configs, nextCfg, objects, fields, nextObj, nextFld, bq, gemini_api_keys>>

\* ------------------------------- context for the generation adapter (api.py:390)
\* The JSON values `object_names` can hold: null, a list of strings, or a
\* value that is not a list.
JsonNull == [json |-> "null"]

JsonList(items) == [json |-> "list", items |-> items]

JsonString == [json |-> "string"]

\* The lists of names a generation request sends.
ContextNameLists ==
    {<<>>, <<"t1">>, <<"t2">>, <<"t1", "t2">>, <<"t2", "t1">>, <<"t1", "t1">>}

\* The connection ids a generation request sends.
ContextConnectionIds == {1, 2, 3}

\* Bodies of POST /api/generate_sql_from_natural_language.
GenerateData ==
    {EmptyDict, [user_request |-> "q"], [connection_id |-> 1],
     [user_request |-> "", connection_id |-> 1]}
      \cup {[user_request |-> "q", connection_id |-> c] : c \in ContextConnectionIds}
      \cup {[user_request |-> "q", connection_id |-> c, object_names |-> v] :
               c \in ContextConnectionIds,
               v \in {JsonNull, JsonString} \cup {JsonList(l) : l \in ContextNameLists}}

\* api.py:394  data = request.get_json()
generate_sql_get_json(r, bodies) ==
    /\ req[r].pc = "handler"
    /\ req[r].op = "generate"
    /\ \E data \in bodies : req' = [req EXCEPT ![r].pc = "body", ![r].arg = data]
    /\ UNCHANGED <<now, users, sessions, issued, nextJti, configs, nextCfg, objects, fields, nextObj, nextFld, bq, gemini_api_keys>>

\* api.py:401  data.get('object_names')
GetObjectNames(data) ==
    IF "object_names" \in DOMAIN data THEN data.object_names ELSE JsonNull

\* api.py:396-416  the checks made before the context is built; NoRes when
\* all of them pass.
GenerateChecks(cfgs, current_user, data) ==
    IF DOMAIN data = {}
    THEN Resp("ValidationError", 400, "Request body must be JSON.")
    ELSE IF ~Truthy(Get(data, "user_request"))
    THEN Resp("ValidationError", 400, "user_request is required.")
    ELSE IF "connection_id" \notin DOMAIN data
    THEN Resp("ValidationError", 400, "connection_id is required.")
    ELSE IF GetObjectNames(data) # JsonNull /\ GetObjectNames(data).json # "list"
    THEN Resp("ValidationError", 400,
              "If provided, object_names must be a list of strings.")
    ELSE IF ~\E c \in cfgs : c.id = data.connection_id /\ c.user_id = current_user
    THEN Resp("NotFoundOrForbidden", 404,
              "BigQuery configuration not found or access denied.")
    ELSE NoRes

\* Variant: every list, also the empty one, is taken as a list of names.
UseSpecificNamesIfList(object_names) == object_names.json = "list"

\* api.py:420  if object_names and len(object_names) > 0
UseSpecificNames(object_names) ==
    /\ object_names # JsonNull
    /\ object_names.items # <<>>
    /\ Len(object_names.items) > 0

\* Variant: the name is looked up in every connection of the user.
LookupByNameAnyConnection(objs, user_id, connection_id, obj_name_full) ==
    LET found == {o \in objs : o.user_id = user_id /\ o.object_name = obj_name_full}
    IN  IF found = {} THEN {}
        ELSE {CHOOSE o \in found : \A p \in found : o.id <= p.id}

\* api.py:423-427  Object.query.filter_by(user_id, connection_id, object_name).first()
LookupByName(objs, user_id, connection_id, obj_name_full) ==
    LET found == {o \in objs : /\ o.user_id = user_id
                               /\ o.connection_id = connection_id
                               /\ o.object_name = obj_name_full}
    IN  IF found = {} THEN {}
        ELSE {CHOOSE o \in found : \A p \in found : o.id <= p.id}

\* api.py:432-436, 459-463  the field entries of one Object
ContextFields(flds, db_object) ==
    LET rows == SeqById(ObjectFields(flds, db_object))
    IN  [i \in 1..Len(rows) |-> [field_name |-> rows[i].field_name,
                                 field_description |-> rows[i].field_description]]

\* Variant: a name that matches no Object gets no entry.
AppendObjDataIfFound(acc, flds, obj_name_full, found) ==
    IF found = {} THEN acc
    ELSE LET db_object == CHOOSE o \in found : TRUE
         IN  Append(acc, [object_name |-> obj_name_full,
                          object_description |-> db_object.object_description,
                          fields |-> ContextFields(flds, db_object)])

\* api.py:429-439  one entry per requested name, blank when nothing matched
AppendObjData(acc, flds, obj_name_full, found) ==
    IF found = {}
    THEN Append(acc, [object_name |-> obj_name_full, object_description |-> NoneText,
                      fields |-> <<>>])
    ELSE LET db_object == CHOOSE o \in found : TRUE
         IN  Append(acc, [object_name |-> obj_name_full,
                          object_description |-> db_object.object_description,
                          fields |-> ContextFields(flds, db_object)])

\* api.py:422-439  the loop over the requested names, from position i on
RECURSIVE SpecificObjects(_, _, _, _, _, _, _)
SpecificObjects(acc, objs, flds, user_id, connection_id, names, i) ==
    IF i > Len(names) THEN acc
    ELSE SpecificObjects(
             AppendObjData(acc, flds, names[i],
                           LookupByName(objs, user_id, connection_id, names[i])),
             objs, flds, user_id, connection_id, names, i + 1)

\* api.py:447-464  every Object of the connection
AllObjects(objs, flds, user_id, connection_id) ==
    LET all_db_objects == SeqById({o \in objs : /\ o.user_id = user_id
                                                /\ o.connection_id = connection_id})
    IN  [i \in 1..Len(all_db_objects) |->
           [object_name |-> all_db_objects[i].object_name,
            object_description |-> all_db_objects[i].object_description,
            fields |-> ContextFields(flds, all_db_objects[i])]]

\* api.py:418-464  objects_with_fields_data
objects_with_fields_data(objs, flds, user_id, connection_id, object_names) ==
    IF UseSpecificNames(object_names)
    THEN SpecificObjects(<<>>, objs, flds, user_id, connection_id, object_names.items, 1)
    ELSE AllObjects(objs, flds, user_id, connection_id)

\* Variant: a requested name that matches no Object is registered on the way.
generate_sql_from_natural_language_registering(r) ==
    /\ req[r].pc = "body"
    /\ req[r].op = "generate"
    /\ LET current_user == get_jwt_identity(req[r].tok)
           data == req[r].arg
           failed == GenerateChecks(configs, current_user, data)
           names == IF failed = NoRes /\ UseSpecificNames(GetObjectNames(data))
                    THEN {GetObjectNames(data).items[i] :
                            i \in 1..Len(GetObjectNames(data).items)}
                    ELSE {}
           missing == {n \in names :
                         LookupByName(objects, current_user, data.connection_id, n) = {}}
       IN  /\ IF failed # NoRes
              THEN Finish(r, failed)
              ELSE req' = [req EXCEPT ![r].pc = "generate",
                             ![r].local = objects_with_fields_data(objects, fields, current_user,
                                              data.connection_id, GetObjectNames(data))]
           /\ IF missing = {}
              THEN objects' = objects /\ nextObj' = nextObj
              ELSE /\ objects' = objects \cup
                         {[id |-> nextObj, user_id |-> current_user,
                           connection_id |-> data.connection_id,
                           object_name |-> CHOOSE n \in missing : TRUE,
                           object_description |-> NoneText]}
                   /\ nextObj' = nextObj + 1
    /\ UNCHANGED <<now, users, sessions, issued, nextJti, configs, nextCfg, fields, nextFld, bq, gemini_api_keys>>

\* api.py:390-474  the checks, then the context built from the metadata store
generate_sql_from_natural_language(r) ==
    /\ req[r].pc = "body"
    /\ req[r].op = "generate"
    /\ LET current_user == get_jwt_identity(req[r].tok)
           data == req[r].arg
           failed == GenerateChecks(configs, current_user, data)
       IN  IF failed # NoRes
           THEN Finish(r, failed)
           ELSE req' = [req EXCEPT ![r].pc = "generate",
                          ![r].local = objects_with_fields_data(objects, fields, current_user,
                                           data.connection_id, GetObjectNames(data))]
    /\ UNCHANGED <<now, users, sessions, issued, nextJti, configs, nextCfg, objects, fields, nextObj, nextFld, bq, gemini_api_keys>>

\* What model.generate_content does with a prompt (gemini_service.py:91):
\* it returns a candidate, returns none, or raises.
AdapterOutcomes == {"sql", "blocked", "error"}

\* gemini_service.py:8-18  GeminiService.__init__(self, api_key) called with
\* the positional arguments args.
GeminiService(args) ==
    IF Len(args) # 1 THEN "TypeError"
    ELSE IF ~Truthy(args[1]) THEN "ValueError"
    ELSE "ok"

\* gemini_service.py:20-135  the result dict, EmptyDict for None; the
\* exception of the adapter is caught at 131-135 and gives the same result
\* as a response without candidates.
generate_sql_query(user_request, objects_with_fields, outcome) ==
    IF ~Truthy(user_request) THEN EmptyDict
    ELSE IF objects_with_fields = <<>> THEN EmptyDict
    ELSE IF outcome = "sql" THEN [sql |-> "SELECT 1", full_prompt |-> "prompt"]
    ELSE [sql |-> NoneText, full_prompt |-> "prompt"]

\* api.py:498-510  the answer for a result of generate_sql_query
GenerateAnswer(result) ==
    IF Truthy(Get(result, "sql"))
    THEN [Resp("Ok", 200, "") EXCEPT
             !.body = [generated_sql |-> result.sql,
                       full_prompt_string |-> result.full_prompt]]
    ELSE IF Truthy(Get(result, "full_prompt"))
    THEN [Resp("Unprocessable", 422, "Could not generate SQL query.") EXCEPT
             !.body = [full_prompt_string |-> result.full_prompt]]
    ELSE Resp("Unprocessable", 422, "Could not generate SQL query due to an internal error")

\* api.py:488-515  gemini_service = GeminiService(): the call passes no
\* api_key, and the TypeError this raises is neither of the exceptions caught
\* at api.py:491-496, so the request ends as an unhandled error.  The
\* outcome the adapter holds for the prompt is kept with the answer.
gemini_service(r) ==
    /\ req[r].pc = "generate"
    /\ req[r].op = "generate"
    /\ \E outcome \in AdapterOutcomes :
         LET init == GeminiService(<<>>)
             res == IF init = "TypeError"
                    THEN Resp("InternalError", 500, "Internal Server Error")
                    ELSE IF init = "ValueError"
                    THEN Resp("InternalError", 500, "AI service initialization error")
                    ELSE GenerateAnswer(generate_sql_query(req[r].arg.user_request,
                                                           req[r].local, outcome))
         IN  req' = [req EXCEPT ![r].pc = "done", ![r].local = [adapter |-> outcome],
                                ![r].res = res]
    /\ UNCHANGED <<now, users, sessions, issued, nextJti, configs, nextCfg, objects, fields, nextObj, nextFld, bq, gemini_api_keys>>

\* ------------------------------------------------------------ query gateway
\* bq is the log of the uses of BigQueryService: one entry for each client
\* that was constructed from a connection's key and the call made on it.
\* The warehouse answers a call by its arguments alone: one query text is
\* valid and one table exists.
BqCall(call, connection_id, arg) ==
    [call |-> call, connection_id |-> connection_id, arg |-> arg]

\* A client.query() the warehouse accepts (bigquery_service.py:31,44).
QueryValid(query) == query = "q_ok"

\* A client.get_table() the warehouse can answer (bigquery_service.py:67).
TableExists(table_id) == table_id = <<"a", ".", "a">>

\* Variant: the connection is looked up by its id alone.
OwnConfigAnyUser(cfgs, config_id, user_id) == {c \in cfgs : c.id = config_id}

\* api.py:135,244,528,589  BigQueryConfig.query.filter_by(id=..., user_id=current_user.id)
OwnConfig(cfgs, config_id, user_id) ==
    {c \in cfgs : c.id = config_id /\ c.user_id = user_id}

\* Variant: a client is built from any payload; a bad one fails at the call.
BigQueryServiceLazy(gcp_key_json) == "ok"

\* bigquery_service.py:7-16  the client built from the stored key: ValueError
\* when the payload is no service-account key.
BigQueryService(gcp_key_json) ==
    IF gcp_key_json = "malformed" THEN "ValueError" ELSE "ok"

\* api.py:147,262,541,602  except ValueError as e: return jsonify(message=str(e)), 400
ClientError == Resp("UpstreamError", 400, "Error initializing BigQuery client from key")

\* str.split(sep): the segments of s between the occurrences of sep.
RECURSIVE split(_, _)
split(s, sep) ==
    IF s = <<>> THEN <<<<>>>>
    ELSE LET rest == split(Tail(s), sep)
         IN  IF Head(s) = sep THEN <<<<>>>> \o rest
             ELSE <<<<Head(s)>> \o rest[1]>> \o Tail(rest)

\* Object names as strings over two characters, at most n long.
RECURSIVE NamesUpTo(_)
NamesUpTo(n) ==
    IF n = 0 THEN {<<>>}
    ELSE LET shorter == NamesUpTo(n - 1)
         IN  shorter \cup {Append(l, x) : l \in {m \in shorter : Len(m) = n - 1},
                                           x \in {"a", "."}}

\* Variant: a name is refused only when it has no dot at all.
InvalidObjectNameDotless(object_name) ==
    ~\E i \in 1..Len(object_name) : object_name[i] = "."

\* api.py:240  '.' not in object_name or len(object_name.split('.')) != 2
InvalidObjectName(object_name) ==
    \/ ~\E i \in 1..Len(object_name) : object_name[i] = "."
    \/ Len(split(object_name, ".")) # 2

\* Bodies of POST /api/table_schema.
SchemaData ==
    {EmptyDict}
      \cup {[connection_id |-> c] : c \in 1..MaxConfigs}
      \cup {[object_name |-> n] : n \in NamesUpTo(MaxNameLen)}
      \cup {[connection_id |-> c, object_name |-> n] :
               c \in 1..MaxConfigs, n \in NamesUpTo(MaxNameLen)}

\* api.py:222-267  POST /api/table_schema
get_table_schema_endpoint(r, bodies) ==
    /\ req[r].pc = "handler"
    /\ req[r].op = "schema"
    /\ \E data \in bodies :
         LET current_user == get_jwt_identity(req[r].tok)
             answer(res) == req' = [req EXCEPT ![r].pc = "done", ![r].arg = data,
                                               ![r].res = res]
         IN  IF DOMAIN data = {}
             THEN answer(Resp("ValidationError", 400, "Request body must be JSON."))
                  /\ bq' = bq
             ELSE IF "connection_id" \notin DOMAIN data
             THEN answer(Resp("ValidationError", 400, "connection_id is required."))
                  /\ bq' = bq
             ELSE IF "object_name" \notin DOMAIN data \/ data.object_name = <<>>
             THEN answer(Resp("ValidationError", 400, "object_name is required"))
                  /\ bq' = bq
             ELSE IF InvalidObjectName(data.object_name)
             THEN answer(Resp("ValidationError", 400, "Invalid object_name format."))
                  /\ bq' = bq
             ELSE IF OwnConfig(configs, data.connection_id, current_user) = {}
             THEN answer(Resp("NotFoundOrForbidden", 404,
                              "BigQuery configuration not found or access denied."))
                  /\ bq' = bq
             ELSE IF \E c \in OwnConfig(configs, data.connection_id, current_user) :
                        BigQueryService(c.gcp_key_json) = "ValueError"
             THEN answer(ClientError) /\ bq' = bq
             ELSE /\ bq' = Append(bq, BqCall("get_table", data.connection_id,
                                             data.object_name))
                  /\ IF TableExists(data.object_name)
                     THEN answer(Resp("Ok", 200, ""))
                     ELSE answer(Resp("UpstreamError", 404, "Table or view not found"))
    /\ UNCHANGED <<now, users, sessions, issued, nextJti, configs, nextCfg, objects, fields, nextObj, nextFld,
                   gemini_api_keys>>

\* Bodies of POST /api/dry-run and POST /api/query.
QueryData ==
    {EmptyDict}
      \cup {[id |-> c] : c \in 1..MaxConfigs}
      \cup {[query |-> q] : q \in {"q_ok"}}
      \cup {[id |-> c, query |-> q] : c \in 1..MaxConfigs, q \in {"", "q_ok", "q_bad"}}

\* api.py:522-545, 583-606  the body shared by the two query routes: the
\* checks, the connection of the caller, a client from its key and the call.
RunQuery(log, cfgs, current_user, data, call) ==
    IF DOMAIN data = {} \/ "id" \notin DOMAIN data \/ ~Truthy(Get(data, "query"))
    THEN [log |-> log,
          res |-> Resp("ValidationError", 400,
                       "Connection ID ('id') and SQL query ('query') are required.")]
    ELSE IF OwnConfig(cfgs, data.id, current_user) = {}
    THEN [log |-> log, res |-> NotFoundOrForbidden]
    ELSE IF \E c \in OwnConfig(cfgs, data.id, current_user) :
               BigQueryService(c.gcp_key_json) = "ValueError"
    THEN [log |-> log, res |-> ClientError]
    ELSE [log |-> Append(log, BqCall(call, data.id, data.query)),
          res |-> IF QueryValid(data.query)
                  THEN Resp("Ok", 200, "success")
                  ELSE Resp("UpstreamError", 400, "failed")]

\* api.py:518-545  POST /api/dry-run
dry_run_query(r, bodies) ==
    /\ req[r].pc = "handler"
    /\ req[r].op = "dry_run"
    /\ \E data \in bodies :
         LET out == RunQuery(bq, configs, get_jwt_identity(req[r].tok), data, "dry_run")
         IN  /\ bq' = out.log
             /\ req' = [req EXCEPT ![r].pc = "done", ![r].arg = data, ![r].res = out.res]
    /\ UNCHANGED <<now, users, sessions, issued, nextJti, configs, nextCfg, objects, fields, nextObj, nextFld,
                   gemini_api_keys>>

\* Variant: a query runs only after a dry run of the same text on the same
\* connection.
execute_bq_query_after_dry_run(r, bodies) ==
    /\ req[r].pc = "handler"
    /\ req[r].op = "execute"
    /\ \E data \in bodies :
         LET out == RunQuery(bq, configs, get_jwt_identity(req[r].tok), data, "execute")
             gated == /\ out.log # bq
                      /\ \A i \in 1..Len(bq) :
                            bq[i] # BqCall("dry_run", data.id, data.query)
         IN  /\ bq' = IF gated THEN bq ELSE out.log
             /\ req' = [req EXCEPT ![r].pc = "done", ![r].arg = data,
                          ![r].res = IF gated
                                     THEN Resp("ValidationError", 400, "dry run required")
                                     ELSE out.res]
    /\ UNCHANGED <<now, users, sessions, issued, nextJti, configs, nextCfg, objects, fields, nextObj, nextFld,
                   gemini_api_keys>>

\* api.py:579-606  POST /api/query
execute_bq_query(r, bodies) ==
    /\ req[r].pc = "handler"
    /\ req[r].op = "execute"
    /\ \E data \in bodies :
         LET out == RunQuery(bq, configs, get_jwt_identity(req[r].tok), data, "execute")
         IN  /\ bq' = out.log
             /\ req' = [req EXCEPT ![r].pc = "done", ![r].arg = data, ![r].res = out.res]
    /\ UNCHANGED <<now, users, sessions, issued, nextJti, configs, nextCfg, objects, fields, nextObj, nextFld,
                   gemini_api_keys>>

\* Bodies of POST /api/config_test.
TestData == {EmptyDict} \cup {[id |-> c] : c \in 1..MaxConfigs}

\* api.py:126-150  POST /api/config_test
test_config(r, bodies) ==
    /\ req[r].pc = "handler"
    /\ req[r].op = "test"
    /\ \E data \in bodies :
         LET current_user == get_jwt_identity(req[r].tok)
             answer(res) == req' = [req EXCEPT ![r].pc = "done", ![r].arg = data,
                                               ![r].res = res]
         IN  IF DOMAIN data = {} \/ "id" \notin DOMAIN data
             THEN answer(Resp("ValidationError", 400, "Connection ID ('id') is required."))
                  /\ bq' = bq
             ELSE IF OwnConfig(configs, data.id, current_user) = {}
             THEN answer(NotFoundOrForbidden) /\ bq' = bq
             ELSE IF \E c \in OwnConfig(configs, data.id, current_user) :
                        BigQueryService(c.gcp_key_json) = "ValueError"
             THEN answer(ClientError) /\ bq' = bq
             ELSE /\ bq' = Append(bq, BqCall("list_datasets", data.id, ""))
                  /\ answer(Resp("Ok", 200, "Connection successful."))
    /\ UNCHANGED <<now, users, sessions, issued, nextJti, configs, nextCfg, objects, fields, nextObj, nextFld,
                   gemini_api_keys>>

\* ------------------------------------------------------- specifications
\* Spec: one request at a time against logins, revocations, policy changes,
\* user removals and the clock, which may all fall between two steps of a call.
Next ==
    \/ Tick
    \/ \E r \in Solo, e \in Emails, p \in Passwords : login(r, e, p)
    \/ \E s \in sessions : RevokeSession(s)
    \/ \E s \in sessions : ExpireSession(s)
    \/ \E u \in UserIds : DeleteUser(u)
    \/ \E r \in Solo, tok \in Presentable : AuthVerify(r, "data", tok, <<>>)
    \/ \E r \in Solo : AuthLookup(r)
    \/ \E r \in Solo : AuthExpiry(r)
    \/ \E r \in Solo : AuthPrincipal(r)
    \/ \E r \in Solo : get_data(r)

Spec == Init /\ [][Next]_vars

\* SpecConc: two workers serve protected requests at once on the sessions of
\* one user; the ledger, the users table and the clock change only while both
\* are idle, so a response that is still held was computed entirely in the
\* present state.
ConcUser == "u1"

AllIdle == \A r \in Req : req[r].pc = "idle"

\* Worker 2 picks a request up only while worker 1 is busy.
Free(r) == req[r].pc = "idle" /\ (r = 1 \/ req[1].pc # "idle")

NextConc ==
    \/ AllIdle /\ Tick
    \/ AllIdle /\ \E p \in Passwords : login(1, EmailOf(ConcUser), p)
    \/ AllIdle /\ \E s \in sessions : RevokeSession(s)
    \/ AllIdle /\ \E s \in sessions : ExpireSession(s)
    \/ AllIdle /\ DeleteUser(ConcUser)
    \/ \E r \in Req, tok \in Presentable : Free(r) /\ AuthVerify(r, "data", tok, <<>>)
    \/ \E r \in Req : AuthLookup(r)
    \/ \E r \in Req : AuthExpiry(r)
    \/ \E r \in Req : AuthPrincipal(r)
    \/ \E r \in Req : get_data(r)
    \/ \E r \in Req : Respond(r)

SpecConc == Init /\ [][NextConc]_vars

\* SpecReg: both users hold a session and two workers serve uploads of
\* connections; a second request may run between the steps of the first.
InitReg ==
    /\ now = 0
    /\ users = UserIds
    /\ sessions = {SessionRow(u, create_access_token(u, IF u = "u1" THEN 1 ELSE 2, 0),
                              None, 0) : u \in UserIds}
    /\ issued = {[token |-> create_access_token(u, IF u = "u1" THEN 1 ELSE 2, 0),
                  owner |-> u] : u \in UserIds}
    /\ nextJti = 3
    /\ req = [r \in Req |-> Idle]
    /\ configs = {}
    /\ nextCfg = 1
    /\ objects = {}
    /\ fields = {}
    /\ nextObj = 1
    /\ nextFld = 1
    /\ bq = <<>>
    /\ gemini_api_keys = {}

NextReg ==
    \/ \E r \in Req, tok \in IssuedTokens, n \in ConnNames, k \in Payloads :
           Free(r) /\ AuthVerify(r, "upload", tok, <<n, k>>)
    \/ \E r \in Req : AuthLookup(r)
    \/ \E r \in Req : AuthExpiry(r)
    \/ \E r \in Req : AuthPrincipal(r)
    \/ \E r \in Req : upload_config(r)
    \/ \E r \in Req : nextCfg <= MaxConfigs /\ upload_config_commit(r)
    \/ \E r \in Req, tok \in IssuedTokens, id \in 1..MaxConfigs :
           Free(r) /\ AuthVerify(r, "delete", tok, <<id>>)
    \/ \E r \in Req : delete_config(r)
    \/ \E r \in Req : delete_config_commit(r)
    \/ \E r \in Req : Respond(r)

SpecReg == InitReg /\ [][NextReg]_vars

\* SpecStore: both users hold a session; two workers register connections,
\* document their tables and delete connections.
StoreBodies(c) ==
    {[connection_id |-> c, object_name |-> "t1"],
     [connection_id |-> c, object_name |-> "t1", fields |-> <<[field_name |-> "f1"]>>]}

NextStore ==
    \/ \E r \in Req, tok \in IssuedTokens :
           Free(r) /\ AuthVerify(r, "upload", tok, <<"c1", "dict">>)
    \/ \E r \in Req, tok \in IssuedTokens : Free(r) /\ AuthVerify(r, "upsert", tok, <<>>)
    \/ \E r \in Req, tok \in IssuedTokens, id \in 1..MaxConfigs :
           Free(r) /\ AuthVerify(r, "delete", tok, <<id>>)
    \/ \E r \in Req : AuthLookup(r)
    \/ \E r \in Req : AuthExpiry(r)
    \/ \E r \in Req : AuthPrincipal(r)
    \/ \E r \in Req : upload_config(r)
    \/ \E r \in Req : nextCfg <= MaxConfigs /\ upload_config_commit(r)
    \/ \E r \in Req, c \in 1..MaxConfigs : update_table_schema_get_json(r, StoreBodies(c))
    \/ \E r \in Req : update_table_schema_description(r)
    \/ \E r \in Req : delete_config(r)
    \/ \E r \in Req : delete_config_commit(r)
    \/ \E r \in Req : Respond(r)

SpecStore == InitReg /\ [][NextStore]_vars

\* SpecMeta: the first user registers one connection; both users send metadata
\* upserts for it, one request after another.
NextMeta ==
    \/ \E r \in Solo, i \in issued :
           i.owner = "u1" /\ AuthVerify(r, "upload", i.token, <<"c1", "dict">>)
    \/ \E r \in Solo, tok \in IssuedTokens : AuthVerify(r, "upsert", tok, <<>>)
    \/ \E r \in Solo : AuthLookup(r)
    \/ \E r \in Solo : AuthExpiry(r)
    \/ \E r \in Solo : AuthPrincipal(r)
    \/ \E r \in Solo : upload_config(r)
    \/ \E r \in Solo : nextCfg <= MaxConfigs /\ upload_config_commit(r)
    \/ \E r \in Solo, c \in configs : update_table_schema_get_json(r, UpsertData(c.id))
    \/ \E r \in Solo : update_table_schema_description(r)

SpecMeta == InitReg /\ [][NextMeta]_vars

\* SpecRace: the first user holds one connection and sends metadata upserts
\* for it through two workers, whose transactions interleave statement by
\* statement.
RaceBodies(c) ==
    {[connection_id |-> c, object_name |-> "t1"],
     [connection_id |-> c, object_name |-> "t1", object_description |-> "d1"],
     [connection_id |-> c, object_name |-> "t1", fields |-> <<[field_name |-> "f1"]>>],
     [connection_id |-> c, object_name |-> "t1",
      fields |-> <<[field_name |-> "f1", field_description |-> "d1"]>>]}

OwnerTokens(u) == {i.token : i \in {j \in issued : j.owner = u}}

NextRace ==
    \/ \E r \in Req, tok \in OwnerTokens("u1") :
           Free(r) /\ configs = {} /\ AuthVerify(r, "upload", tok, <<"c1", "dict">>)
    \/ \E r \in Req, tok \in OwnerTokens("u1") : Free(r) /\ AuthVerify(r, "upsert", tok, <<>>)
    \/ \E r \in Req : AuthLookup(r)
    \/ \E r \in Req : AuthExpiry(r)
    \/ \E r \in Req : AuthPrincipal(r)
    \/ \E r \in Req : upload_config(r)
    \/ \E r \in Req : nextCfg <= MaxConfigs /\ upload_config_commit(r)
    \/ \E r \in Req, c \in configs : update_table_schema_get_json(r, RaceBodies(c.id))
    \/ \E r \in Req : upsert_lookup(r)
    \/ \E r \in Req : upsert_walk(r)
    \/ \E r \in Req : upsert_commit(r)
    \/ \E r \in Req : Respond(r)

SpecRace == InitReg /\ [][NextRace]_vars

\* Reads of the metadata store by one worker: both users register
\* connections and describe objects, list them and ask for a generation.
\* "t1" is described without descriptions, "t2" with them.
ReadBodies(c) ==
    {[connection_id |-> c, object_name |-> "t1", fields |-> <<[field_name |-> "f1"]>>],
     [connection_id |-> c, object_name |-> "t2", object_description |-> "d1",
      fields |-> <<[field_name |-> "f1", field_description |-> "d1"]>>]}

NextRead ==
    \/ \E r \in Solo, i \in issued, n \in {"c1", "c2"} :
           (i.owner = "u1" \/ n = "c1") /\ AuthVerify(r, "upload", i.token, <<n, "dict">>)
    \/ \E r \in Solo, tok \in IssuedTokens :
           nextObj <= MaxObjects /\ AuthVerify(r, "upsert", tok, <<>>)
    \/ \E r \in Solo, tok \in IssuedTokens : AuthVerify(r, "list", tok, <<>>)
    \/ \E r \in Solo, tok \in IssuedTokens : AuthVerify(r, "generate", tok, <<>>)
    \/ \E r \in Solo : AuthLookup(r)
    \/ \E r \in Solo : AuthExpiry(r)
    \/ \E r \in Solo : AuthPrincipal(r)
    \/ \E r \in Solo : upload_config(r)
    \/ \E r \in Solo : upload_config_commit(r)
    \/ \E r \in Solo, c \in configs : update_table_schema_get_json(r, ReadBodies(c.id))
    \/ \E r \in Solo : update_table_schema_description(r)
    \/ \E r \in Solo : get_objects_with_fields(r)
    \/ \E r \in Solo : generate_sql_get_json(r, GenerateData)
    \/ \E r \in Solo : generate_sql_from_natural_language(r)
    \/ \E r \in Solo : gemini_service(r)

SpecRead == InitReg /\ [][NextRead]_vars

\* The query gateway under one worker: u1 registers a connection, both
\* users ask for schemas, dry runs and queries.
NextSchema ==
    \/ \E r \in Solo, i \in issued :
           i.owner = "u1" /\ AuthVerify(r, "upload", i.token, <<"c1", "dict">>)
    \/ \E r \in Solo, tok \in IssuedTokens :
           Len(bq) < MaxCalls /\ AuthVerify(r, "schema", tok, <<>>)
    \/ \E r \in Solo : AuthLookup(r)
    \/ \E r \in Solo : AuthExpiry(r)
    \/ \E r \in Solo : AuthPrincipal(r)
    \/ \E r \in Solo : upload_config(r)
    \/ \E r \in Solo : nextCfg <= MaxConfigs /\ upload_config_commit(r)
    \/ \E r \in Solo : get_table_schema_endpoint(r, SchemaData)

SpecSchema == InitReg /\ [][NextSchema]_vars

NextQuery ==
    \/ \E r \in Solo, i \in issued :
           i.owner = "u1" /\ AuthVerify(r, "upload", i.token, <<"c1", "dict">>)
    \/ \E r \in Solo, tok \in IssuedTokens :
           Len(bq) < MaxCalls /\ AuthVerify(r, "dry_run", tok, <<>>)
    \/ \E r \in Solo, tok \in IssuedTokens :
           Len(bq) < MaxCalls /\ AuthVerify(r, "execute", tok, <<>>)
    \/ \E r \in Solo : AuthLookup(r)
    \/ \E r \in Solo : AuthExpiry(r)
    \/ \E r \in Solo : AuthPrincipal(r)
    \/ \E r \in Solo : upload_config(r)
    \/ \E r \in Solo : nextCfg <= MaxConfigs /\ upload_config_commit(r)
    \/ \E r \in Solo : dry_run_query(r, QueryData)
    \/ \E r \in Solo : execute_bq_query(r, QueryData)

SpecQuery == InitReg /\ [][NextQuery]_vars

\* The four warehouse routes under one worker: u1 registers a connection
\* with a service-account key and one with a payload that is none.
GateSchemaData ==
    {[connection_id |-> c, object_name |-> <<"a", ".", "a">>] : c \in 1..MaxConfigs}

NextGate ==
    \/ \E r \in Solo, i \in issued :
           i.owner = "u1" /\ AuthVerify(r, "upload", i.token, <<"c1", "dict">>)
    \/ \E r \in Solo, i \in issued :
           i.owner = "u1" /\ AuthVerify(r, "upload", i.token, <<"c2", "malformed">>)
    \/ \E r \in Solo, tok \in IssuedTokens, op \in {"schema", "dry_run", "execute", "test"} :
           Len(bq) < MaxCalls /\ AuthVerify(r, op, tok, <<>>)
    \/ \E r \in Solo : AuthLookup(r)
    \/ \E r \in Solo : AuthExpiry(r)
    \/ \E r \in Solo : AuthPrincipal(r)
    \/ \E r \in Solo : upload_config(r)
    \/ \E r \in Solo : nextCfg <= MaxConfigs /\ upload_config_commit(r)
    \/ \E r \in Solo : get_table_schema_endpoint(r, GateSchemaData)
    \/ \E r \in Solo : dry_run_query(r, QueryData)
    \/ \E r \in Solo : execute_bq_query(r, QueryData)
    \/ \E r \in Solo : test_config(r, TestData)

SpecGate == InitReg /\ [][NextGate]_vars

\* The routes of the store behind token_required_custom, under one worker,
\* with every token a client can present while the session of one user is
\* revoked or expires.
\* ------------------------------------------------- generation key settings
\* flask_jwt_extended.jwt_required(): the decorator of the two settings
\* routes (api.py:155, api.py:199).  It verifies the token itself and then
\* runs the view; the sessions table is not read.
jwt_required(r, op, tok, arg) ==
    /\ req[r].pc \in {"idle", "done"}
    /\ LET v == VerifyJwt(tok, now)
           started == [Idle EXCEPT !.op = op, !.tok = tok, !.arg = arg,
                                   !.late = (tok \in IssuedTokens
                                             /\ \A s \in sessions : s.token # tok)]
       IN  req' = [req EXCEPT ![r] =
                     IF v # NoRes THEN [started EXCEPT !.pc = "done", !.res = v]
                     ELSE [started EXCEPT !.pc = "handler"]]
    /\ UNCHANGED <<now, users, sessions, issued, nextJti, configs, nextCfg, objects, fields, nextObj, nextFld, bq, gemini_api_keys>>

\* str.strip() on the key texts the requests carry
strip(s) == IF s = " " THEN "" ELSE s

\* JSON bodies of POST /api/settings/gemini-api-key; api_key is always a text
KeyData == {EmptyDict, [api_key |-> ""], [api_key |-> " "], [api_key |-> "k1"],
            [api_key |-> "k2"]}

\* GeminiAPIKey.query.first(): the rows the statement may return first
first(rows) == rows

\* api.py:154-195  POST /api/settings/gemini-api-key
set_gemini_api_key(r) ==
    /\ req[r].pc = "handler"
    /\ req[r].op = "set_key"
    /\ LET data == req[r].arg
       IN  IF data = EmptyDict \/ ~Truthy(data.api_key)
           THEN /\ Finish(r, Resp("BadRequest", 400, "api_key is required in JSON payload."))
                /\ UNCHANGED gemini_api_keys
           ELSE IF strip(data.api_key) = ""
           THEN /\ Finish(r, Resp("BadRequest", 400, "api_key must be a non-empty string."))
                /\ UNCHANGED gemini_api_keys
           ELSE /\ IF first(gemini_api_keys) # {}
                   THEN \E gemini_api_key_entry \in first(gemini_api_keys) :
                            gemini_api_keys' =
                                (gemini_api_keys \ {gemini_api_key_entry})
                                    \cup {[gemini_api_key_entry EXCEPT
                                             !.api_key = data.api_key]}
                   ELSE gemini_api_keys' = {[id |-> 1, api_key |-> data.api_key]}
                /\ Finish(r, Resp("Ok", 200, "Gemini API Key saved successfully."))
    /\ UNCHANGED <<now, users, sessions, issued, nextJti, configs, nextCfg, objects, fields, nextObj, nextFld, bq>>

\* api.py:198-219  GET /api/settings/gemini-api-key
get_gemini_api_key(r) ==
    /\ req[r].pc = "handler"
    /\ req[r].op = "get_key"
    /\ IF first(gemini_api_keys) # {}
       THEN \E gemini_api_key_entry \in first(gemini_api_keys) :
                Finish(r, [Resp("Ok", 200, "")
                             EXCEPT !.body = <<gemini_api_key_entry.api_key>>])
       ELSE Finish(r, Resp("NotFound", 404, "Gemini API Key not set."))
    /\ UNCHANGED <<now, users, sessions, issued, nextJti, configs, nextCfg, objects, fields, nextObj, nextFld, bq, gemini_api_keys>>

\* The settings routes beside a route under token_required_custom, with
\* sessions revoked and expired while requests arrive.
NextKey ==
    \/ Tick
    \/ \E s \in sessions : RevokeSession(s)
    \/ \E s \in sessions : ExpireSession(s)
    \/ \E r \in Solo, tok \in Presentable, data \in KeyData :
           jwt_required(r, "set_key", tok, data)
    \/ \E r \in Solo, tok \in Presentable : jwt_required(r, "get_key", tok, EmptyDict)
    \/ \E r \in Solo, tok \in Presentable : AuthVerify(r, "data", tok, <<>>)
    \/ \E r \in Solo : AuthLookup(r)
    \/ \E r \in Solo : AuthExpiry(r)
    \/ \E r \in Solo : AuthPrincipal(r)
    \/ \E r \in Solo : get_data(r)
    \/ \E r \in Solo : set_gemini_api_key(r)
    \/ \E r \in Solo : get_gemini_api_key(r)

SpecKey == InitReg /\ [][NextKey]_vars

NextGuard ==
    \/ Tick
    \/ \E s \in sessions : s.user_id = ConcUser /\ RevokeSession(s)
    \/ \E s \in sessions : s.user_id = ConcUser /\ ExpireSession(s)
    \/ \E r \in Solo, tok \in Presentable : AuthVerify(r, "upload", tok, <<"c1", "dict">>)
    \/ \E r \in Solo, tok \in Presentable : AuthVerify(r, "upsert", tok, <<>>)
    \/ \E r \in Solo, tok \in Presentable : AuthVerify(r, "list", tok, <<>>)
    \/ \E r \in Solo, tok \in Presentable, id \in 1..MaxConfigs :
           AuthVerify(r, "delete", tok, <<id>>)
    \/ \E r \in Solo : AuthLookup(r)
    \/ \E r \in Solo : AuthExpiry(r)
    \/ \E r \in Solo : AuthPrincipal(r)
    \/ \E r \in Solo : upload_config(r)
    \/ \E r \in Solo : nextCfg <= MaxConfigs /\ upload_config_commit(r)
    \/ \E r \in Solo, c \in configs : update_table_schema_get_json(r, StoreBodies(c.id))
    \/ \E r \in Solo : update_table_schema_description(r)
    \/ \E r \in Solo : get_objects_with_fields(r)
    \/ \E r \in Solo : delete_config(r)
    \/ \E r \in Solo : delete_config_commit(r)

SpecGuard == InitReg /\ [][NextGuard]_vars

\* ------------------------------------------------------------ properties
AuthCall(r) == req[r].op = "data"

AuthDone(r) == AuthCall(r) /\ req[r].pc = "done"

InLedger(tok) == \E s \in sessions : s.token = tok

\* C1: a call of authenticate(t) that begins after the Session row of the
\* issued token t was deleted never reaches the protected handler; it ends
\* with SessionRevoked, or with TokenExpired once the embedded expiry of t has
\* passed, whatever logins happened in between.
C1_RevokedStaysRevoked ==
    \A r \in Req :
        (AuthCall(r) /\ req[r].late) =>
            /\ req[r].pc \in {"ledger", "done"}
            /\ req[r].pc = "done" =>
                 /\ req[r].res.cause \in {"SessionRevoked", "TokenExpired"}
                 /\ req[r].res.cause = "TokenExpired" => req[r].tok.exp <= now
                 /\ req[r].res.user_id = "none"

\* The revoked token is refused while its signature and embedded expiry are
\* valid and its user has logged in again.
C1_Witness ==
    \E r \in Req :
        /\ AuthDone(r) /\ req[r].late
        /\ req[r].res.cause = "SessionRevoked"
        /\ req[r].tok.sig /\ req[r].tok.exp > now
        /\ \E s \in sessions : s.user_id = req[r].tok.sub /\ s.token # req[r].tok

\* C2: a finished authenticate call on a token returned by login has succeeded
\* with the id of the user who logged in whenever the present time is before
\* both the token's exp and its row's expires_at and the row and the user exist.
C2_LoginTokenAuthenticates ==
    \A r \in Req, i \in issued :
        ( /\ AuthDone(r) /\ req[r].tok = i.token
          /\ now < i.token.exp
          /\ \E s \in sessions : s.token = i.token /\ now < s.expires_at
          /\ i.owner \in users )
        => (req[r].res.cause = "Ok" /\ req[r].res.user_id = i.owner)

C2_Witness ==
    \E r \in Req, i \in issued :
        /\ AuthDone(r) /\ req[r].tok = i.token /\ req[r].res.cause = "Ok"
        /\ req[r].res.user_id = i.owner /\ i.owner = "u2"
        /\ now > 0 /\ now < i.token.exp
        /\ \E s \in sessions : s.token = i.token /\ now < s.expires_at

\* C3 (as claimed): the ledger expiry check lets a call pass iff now < expires_at
\* of the row it found, and answers SessionExpired at now = expires_at and later.
C3_LedgerExpiryStrict ==
    [][\A r \in Req :
         (req[r].pc = "expiry" /\ req'[r].pc # "expiry") =>
            IF now < req[r].entry.expires_at
            THEN req'[r].pc = "principal"
            ELSE req'[r].pc = "done" /\ req'[r].res.cause = "SessionExpired"]_vars

\* C4: a finished call reports the first check that fails, in the order
\* signature and embedded claims, ledger presence, ledger expiry, principal.
C4_FirstFailingCheck ==
    \A r \in Req :
        AuthDone(r) =>
            LET t == req[r].tok
                c == req[r].res.cause
                claimsOk == t.sig /\ t.exp > now
                fresh == \E s \in sessions : s.token = t /\ ~(now > s.expires_at)
            IN  /\ (t # NoHeader /\ ~t.sig) => c = "InvalidToken"
                /\ (t.sig /\ t.exp <= now) => c = "TokenExpired"
                /\ (claimsOk /\ ~InLedger(t)) => c = "SessionRevoked"
                /\ (claimsOk /\ InLedger(t) /\ ~fresh) => c = "SessionExpired"
                /\ c = "PrincipalNotFound" <=>
                       (claimsOk /\ InLedger(t) /\ fresh /\ t.sub \notin users)

\* One call ends with SessionRevoked although its user is gone too, another
\* passes checks 1-3 and ends with PrincipalNotFound.
C4_Witness ==
    /\ AuthDone(1) /\ req[1].res.cause = "SessionRevoked"
    /\ req[1].tok.sub \notin users
    /\ AuthDone(2) /\ req[2].res.cause = "PrincipalNotFound"

AuthFailure(r) ==
    /\ AuthDone(r)
    /\ req[r].res.cause \in {"InvalidToken", "TokenExpired", "SessionRevoked",
                             "SessionExpired", "PrincipalNotFound"}

SameResponse(r1, r2) ==
    /\ req[r1].res.status = req[r2].res.status
    /\ req[r1].res.message = req[r2].res.message

C6_IndependentSessions ==
    [][ /\ (nextJti' # nextJti /\ sessions' # sessions) =>
             /\ sessions \subseteq sessions'
             /\ \E s \in sessions' \ sessions :
                   /\ sessions' = sessions \cup {s}
                   /\ s.token \notin IssuedTokens
                   /\ \A o \in sessions : o.token # s.token
                   /\ AuthResult(s.token, now, sessions', users) = NoRes
             /\ \A t \in IssuedTokens :
                   AuthResult(t, now, sessions', users) = AuthResult(t, now, sessions, users)
        /\ \A s \in sessions :
             (sessions' = sessions \ {s}) =>
                \A t \in IssuedTokens \ {s.token} :
                   AuthResult(t, now, sessions', users) = AuthResult(t, now, sessions, users)
      ]_vars

\* Two rows of one user with different tokens, both accepted at this moment.
C6_Witness ==
    \E s1, s2 \in sessions :
        /\ s1.user_id = s2.user_id /\ s1.token # s2.token
        /\ AuthResult(s1.token, now, sessions, users) = NoRes
        /\ AuthResult(s2.token, now, sessions, users) = NoRes

LoginStep(r) == req'[r].op = "login" /\ req'[r] # req[r]

\* C7: a login answered with 200 adds exactly one Session row; its user_id is
\* the user whose email and password were given, its token is the returned
\* token, its expires_at is the login time plus the TTL and is what is returned.
C7_LoginInsertsOneRow ==
    [][\A r \in Req :
         (LoginStep(r) /\ req'[r].res.status = 200) =>
            \E row \in sessions' :
               /\ row \notin sessions
               /\ sessions' = sessions \cup {row}
               /\ Cardinality(sessions') = Cardinality(sessions) + 1
               /\ row.user_id \in users
               /\ EmailOf(row.user_id) = req'[r].arg[1]
               /\ PasswordOf(row.user_id) = req'[r].arg[2]
               /\ row.token = req'[r].res.token
               /\ row.token.sub = row.user_id
               /\ row.expires_at = now + TTL
               /\ req'[r].res.expires_at = [iso |-> row.expires_at]]_vars

\* A login between two whole seconds: the row expires later than the token.
C7_Witness ==
    \E r \in Req, row \in sessions :
        /\ req[r].op = "login" /\ req[r].res.status = 200
        /\ row.token = req[r].res.token
        /\ req[r].res.expires_at = [iso |-> row.expires_at]
        /\ row.expires_at = now + TTL
        /\ row.expires_at > row.token.exp

\* C8: a login with an email of no user, or with a password that is not the
\* password of the user with that email, is answered 401 "Invalid credentials",
\* returns no token and leaves the ledger as it was.
C8_BadCredentials ==
    [][\A r \in Req :
         ( /\ LoginStep(r)
           /\ req'[r].arg[1] # "" /\ req'[r].arg[2] # ""
           /\ \A u \in users : EmailOf(u) = req'[r].arg[1] => PasswordOf(u) # req'[r].arg[2] )
         => /\ req'[r].res.cause = "InvalidCredentials"
            /\ req'[r].res.status = 401
            /\ req'[r].res.token = NoHeader
            /\ sessions' = sessions
            /\ issued' = issued]_vars

\* A wrong password for a known email is refused and the ledger keeps its row.
C8_Witness ==
    \E r \in Req :
        /\ req[r].op = "login" /\ req[r].arg = <<"a@x", "p2">>
        /\ "u1" \in users
        /\ req[r].res.cause = "InvalidCredentials"
        /\ sessions # {}

\* C9: no step of an authenticate call changes the ledger, and with two calls
\* interleaved each call ends with the result it has when it runs alone.
C9_AuthenticateReadsOnly ==
    [][\A r \in Req :
         (req'[r] # req[r] /\ req'[r].op = "data") =>
            /\ UNCHANGED <<sessions, users, issued, now, configs>>
            /\ req'[r].pc = "done" =>
                 LET alone == AuthResult(req'[r].tok, now, sessions, users)
                 IN  IF alone = NoRes THEN req'[r].res.cause = "Ok"
                     ELSE req'[r].res = alone]_vars

\* Two interleaved calls on the same token have both finished.
C9_Witness ==
    /\ AuthDone(1) /\ AuthDone(2)
    /\ req[1].tok = req[2].tok /\ req[1].tok \in IssuedTokens
    /\ req[1].res.cause = "SessionExpired" /\ req[2].res.cause = "SessionExpired"

\* C10: an upload with a name and a key is answered 409 and changes no row
\* when the caller already has a connection of that name; a connection of that
\* name held by another user does not stand in the way and the row is added.
C10_NameConflict ==
    [][\A r \in Req :
         LET u == req[r].tok.sub
             n == req[r].arg[1]
             taken == \E c \in configs : c.user_id = u /\ c.connection_name = n
         IN  /\ ( /\ req[r].op = "upload" /\ req[r].pc = "handler"
                  /\ req'[r].pc # "handler"
                  /\ n # "" /\ req[r].arg[2] = "dict" )
                => IF taken
                   THEN /\ req'[r].pc = "done"
                        /\ req'[r].res.cause = "Conflict"
                        /\ req'[r].res.status = 409
                        /\ configs' = configs
                   ELSE req'[r].pc = "insert"
             /\ ( /\ req[r].op = "upload" /\ req[r].pc = "insert"
                  /\ req'[r].pc = "done" /\ ~taken )
                => /\ req'[r].res.status = 201
                   /\ \E c \in configs' \ configs :
                         /\ configs' = configs \cup {c}
                         /\ c.user_id = u /\ c.connection_name = n]_vars

\* Both users hold a connection of one name, and a repeated upload got 409.
C10_Witness ==
    \E r \in Req, c1, c2 \in configs :
        /\ c1.connection_name = c2.connection_name /\ c1.user_id # c2.user_id
        /\ req[r].op = "upload" /\ req[r].pc = "done"
        /\ req[r].res.cause = "Conflict"
        /\ req[r].arg[1] = c1.connection_name

\* ------------------------------------------- properties of the registry
Caller(r) == get_jwt_identity(req[r].tok)

\* Two uploads of the same name by the same user.
SameUpload(r, o) ==
    /\ req[r].op = "upload" /\ req[o].op = "upload"
    /\ Caller(r) = Caller(o)
    /\ req[r].arg[1] = req[o].arg[1]

\* C11: of two concurrent register_connection calls with identical
\* (user_id, name) that both ran their existence check before either
\* inserted, the one that inserts second is answered Conflict (the first was
\* answered with success).
C11_RaceYieldsConflict ==
    [][\A r, o \in Req :
         ( /\ r # o /\ SameUpload(r, o)
           /\ req[r].pc = "insert"
           /\ req[o].pc = "done" /\ req[o].res.cause = "Created"
           /\ req'[r].pc = "done" )
         => req'[r].res.cause = "Conflict" /\ req'[r].res.status = 409]_vars

\* C12: no two Connection rows have the same (user_id, name), whatever the
\* interleaving of uploads and deletions by the two users.
C12_UniqueUserName ==
    \A c, d \in configs :
        (c.user_id = d.user_id /\ c.connection_name = d.connection_name) => c = d

\* Two uploads of one name raced past the existence query and one row exists;
\* elsewhere a deleted name was registered again.
C12_Witness ==
    /\ \E r, o \in Req :
         /\ r # o /\ SameUpload(r, o)
         /\ req[r].pc = "done" /\ req[r].res.cause = "Created"
         /\ req[o].pc = "done" /\ req[o].res.cause = "InternalError"
    /\ \E c \in configs : c.id > 1

DeleteCall(r) == req[r].op = "delete"

OwnedBy(id, u) == \E c \in configs : c.id = id /\ c.user_id = u

Foreign(id, u) == \E c \in configs : c.id = id /\ c.user_id # u

Missing(id) == \A c \in configs : c.id # id

\* C13: delete_connection on a connection of another user is answered with
\* the status and the message of delete_connection on an id that does not
\* exist: 404, "Configuration not found or access denied.".
C13_ForeignLooksMissing ==
    [][\A r \in Req :
         ( /\ DeleteCall(r) /\ req[r].pc = "handler" /\ req'[r].pc # "handler"
           /\ (Foreign(req[r].arg[1], Caller(r)) \/ Missing(req[r].arg[1])) )
         => /\ req'[r].pc = "done"
            /\ req'[r].res.status = 404
            /\ req'[r].res.message = "Configuration not found or access denied."]_vars

\* One worker holds the answer for a connection of the other user while the
\* other worker holds the answer for an id that is not in the table.
C13_Witness ==
    \E r, o \in Req :
        /\ DeleteCall(r) /\ req[r].pc = "done" /\ Foreign(req[r].arg[1], Caller(r))
        /\ DeleteCall(o) /\ req[o].pc = "done" /\ Missing(req[o].arg[1])
        /\ req[r].res.status = req[o].res.status
        /\ req[r].res.message = req[o].res.message

\* C14: user B's delete_connection on user A's connection is answered
\* NotFoundOrForbidden and changes neither the connection nor its Objects and
\* Fields; A's delete_connection on that connection, committed while B still
\* holds the refusal, is answered Ok and removes the row.
C14_ForeignDeleteHarmless ==
    [][\A r \in Req :
         /\ ( /\ DeleteCall(r) /\ req[r].pc = "handler" /\ req'[r].pc # "handler"
              /\ Foreign(req[r].arg[1], Caller(r)) )
            => /\ req'[r].res.cause = "NotFoundOrForbidden"
               /\ configs' = configs /\ objects' = objects /\ fields' = fields
         /\ \A o \in Req :
              ( /\ DeleteCall(o) /\ req[o].pc = "done"
                /\ req[o].res.cause = "NotFoundOrForbidden"
                /\ Foreign(req[o].arg[1], Caller(o))
                /\ DeleteCall(r) /\ req[r].pc = "delete" /\ req'[r].pc = "done"
                /\ req[r].arg[1] = req[o].arg[1]
                /\ OwnedBy(req[r].arg[1], Caller(r)) )
              => /\ req'[r].res.cause = "Ok"
                 /\ Missing(req[r].arg[1])']_vars

\* C15: delete_connection by the owner on an existing connection is answered
\* Ok and removes the row, whatever Objects and Fields the connection owns.
C15_OwnerDeleteOk ==
    [][\A r \in Req :
         ( /\ DeleteCall(r) /\ req[r].pc = "delete" /\ req'[r].pc = "done"
           /\ OwnedBy(req[r].arg[1], Caller(r)) )
         => /\ req'[r].res.cause = "Ok" /\ req'[r].res.status = 200
            /\ Missing(req[r].arg[1])']_vars

\* C16: once the owner's delete_connection has run on a connection, no Object
\* with that connection_id and no Field of such an Object remains; every
\* Object refers to an existing Connection and every Field to an existing
\* Object.
C16_DeleteCascades ==
    [][\A r \in Req :
         ( /\ DeleteCall(r) /\ req[r].pc = "delete" /\ req'[r].pc = "done"
           /\ OwnedBy(req[r].arg[1], Caller(r)) )
         => /\ \A o \in objects' : o.connection_id # req[r].arg[1]
            /\ \A o \in objects' : \E c \in configs' : c.id = o.connection_id
            /\ \A f \in fields' : \E o \in objects' : o.id = f.object_id]_vars

\* ------------------------------------- properties of the metadata store
UpsertCall(r) == req[r].op = "upsert"

\* The step in which the handler runs its transaction on the body it read.
UpsertStep(r) == UpsertCall(r) /\ req[r].pc = "body" /\ req'[r].pc = "done"

UpsertOk(r) == UpsertCall(r) /\ req[r].pc = "done" /\ req[r].res.status = 200

\* The request passes the checks made before the transaction starts.
WellAddressed(r) ==
    /\ "connection_id" \in DOMAIN req[r].arg
    /\ Truthy(Get(req[r].arg, "object_name"))
    /\ OwnedBy(req[r].arg.connection_id, Caller(r))

\* The Object rows of objs that the request of r addresses.
Target(r, objs) ==
    {o \in objs : /\ o.user_id = Caller(r)
                  /\ o.connection_id = req[r].arg.connection_id
                  /\ o.object_name = req[r].arg.object_name}

FieldsData(r) == IF "fields" \in DOMAIN req[r].arg THEN req[r].arg.fields ELSE <<>>

\* The positions of the list that name field n; those that also carry a
\* description.
Naming(l, n) == {i \in 1..Len(l) : Get(l[i], "field_name") = n}

Describing(l, n) == {i \in Naming(l, n) : "field_description" \in DOMAIN l[i]}

Last(S) == CHOOSE i \in S : \A j \in S : j <= i

\* C17: a successful upsert on an existing Object keeps the Object's
\* description when the body has no object_description key and sets it to
\* the value sent, "" and null included, when the key is there.
C17_ObjectDescriptionOnlyIfSent ==
    [][\A r \in Req :
         (UpsertStep(r) /\ req'[r].res.status = 200) =>
            \A o \in Target(r, objects) :
                \E n \in objects' :
                    /\ n.id = o.id
                    /\ n.object_description =
                         IF "object_description" \in DOMAIN req[r].arg
                         THEN req[r].arg.object_description
                         ELSE o.object_description]_vars

\* An upsert without the key has succeeded on an Object that still carries
\* the description written earlier.
C17_Witness ==
    \E r \in Req :
        /\ UpsertOk(r)
        /\ "object_description" \notin DOMAIN req[r].arg
        /\ \E o \in Target(r, objects) : o.object_description = "d1"

\* C18: after a successful upsert every field name in the list is one Field
\* of the Object; its description is the last one sent for it in the list, or,
\* when none was sent, the one it had before, or null when the Field is new.
C18_FieldDescriptionOnlyIfSent ==
    [][\A r \in Req :
         (UpsertStep(r) /\ req'[r].res.status = 200) =>
            \A n \in FieldNames :
                Naming(FieldsData(r), n) # {} =>
                  \A o \in Target(r, objects') :
                    LET l == FieldsData(r)
                        before == {f \in fields : f.object_id = o.id /\ f.field_name = n}
                        after == {f \in fields' : f.object_id = o.id /\ f.field_name = n}
                    IN  /\ Cardinality(after) = 1
                        /\ \A f \in after :
                             f.field_description =
                               IF Describing(l, n) # {}
                               THEN l[Last(Describing(l, n))].field_description
                               ELSE IF before # {}
                               THEN (CHOOSE b \in before : TRUE).field_description
                               ELSE NoneText]_vars

\* One request named f1 without a description and f2 for the first time:
\* f1 keeps its text, f2 exists with null.
C18_Witness ==
    \E r \in Req :
        /\ UpsertOk(r)
        /\ FieldsData(r) = <<[field_name |-> "f1"], [field_name |-> "f2"]>>
        /\ \E o \in Target(r, objects) :
             /\ \E f \in fields : /\ f.object_id = o.id /\ f.field_name = "f1"
                                   /\ f.field_description = "d1"
             /\ \E f \in fields : /\ f.object_id = o.id /\ f.field_name = "f2"
                                   /\ f.field_description = NoneText

\* C19: no step removes a Field, and a Field keeps its description in every
\* step except an upsert on its Object whose list names it.
C19_NoDeletionByOmission ==
    [][\A f \in fields :
         \E g \in fields' :
             /\ g.object_id = f.object_id /\ g.field_name = f.field_name
             /\ (~\E r \in Req :
                     /\ UpsertStep(r) /\ WellAddressed(r)
                     /\ f.object_id \in {o.id : o \in Target(r, objects)}
                     /\ Naming(FieldsData(r), f.field_name) # {})
                => g.field_description = f.field_description]_vars

\* An upsert whose list names only f1 has succeeded, and f2 is there with
\* its description.
C19_Witness ==
    \E r \in Req :
        /\ UpsertOk(r)
        /\ Len(FieldsData(r)) > 0
        /\ Naming(FieldsData(r), "f2") = {}
        /\ \E o \in Target(r, objects) :
             \E f \in fields : /\ f.object_id = o.id /\ f.field_name = "f2"
                                /\ f.field_description = "d1"

\* C21: when an upsert has been answered, applying the same request again in
\* that state changes nothing in the store and is answered as the first was,
\* with the same object id; there is one Object for the key and one Field
\* for each name of the list.
C21_UpsertIdempotent ==
    \A r \in Solo :
        (UpsertCall(r) /\ req[r].pc = "done") =>
            LET again == UpsertTransaction(MetaDb, configs, Caller(r), req[r].arg)
            IN  /\ again.db = MetaDb
                /\ again.res = req[r].res
                /\ req[r].res.status = 200 =>
                     /\ Cardinality(Target(r, objects)) = 1
                     /\ \A o \in Target(r, objects) :
                          /\ req[r].res.body.object_id = o.id
                          /\ \A n \in FieldNames :
                               Naming(FieldsData(r), n) # {} =>
                                 Cardinality({f \in fields : /\ f.object_id = o.id
                                                             /\ f.field_name = n}) = 1

\* A request that created the Object with two Fields, one of them named twice
\* in its list, has been answered.
C21_Witness ==
    \E r \in Solo :
        /\ UpsertOk(r)
        /\ Len(FieldsData(r)) = 2 /\ Naming(FieldsData(r), "f1") = {1, 2}
        /\ nextObj = 2 /\ nextFld = 2

\* Two upserts by the same user for the same (connection_id, object_name).
SameUpsert(r, o) ==
    /\ UpsertCall(r) /\ UpsertCall(o)
    /\ Caller(r) = Caller(o)
    /\ WellAddressed(r) /\ WellAddressed(o)
    /\ req[r].arg.connection_id = req[o].arg.connection_id
    /\ req[r].arg.object_name = req[o].arg.object_name

\* C22: of two concurrent upserts for the same key that both looked the
\* Object up while it did not exist, the first to insert is answered with
\* success and the other is answered Conflict and writes nothing; no two
\* Object rows ever share (user_id, connection_id, object_name).
C22_ObjectRaceOneWins ==
    [][/\ \A a, b \in objects' :
            ( /\ a.user_id = b.user_id /\ a.connection_id = b.connection_id
              /\ a.object_name = b.object_name ) => a = b
       /\ \A r, o \in Req :
            ( /\ r # o /\ SameUpsert(r, o)
              /\ req[r].pc = "flush" /\ req[r].local = {}
              /\ req[o].pc = "done" /\ req[o].res.status = 200
              /\ Target(r, objects) # {}
              /\ req'[r].pc # "flush" )
            => /\ req'[r].pc = "done"
               /\ req'[r].res.cause = "Conflict" /\ req'[r].res.status = 409
               /\ objects' = objects /\ fields' = fields]_vars

\* C23: no two Field rows share (object_id, field_name).
C23_UniqueFieldName ==
    \A f, g \in fields :
        (f.object_id = g.object_id /\ f.field_name = g.field_name) => f = g

NamelessAt(l) == {i \in 1..Len(l) : ~Truthy(Get(l[i], "field_name"))}

\* C20: an upsert whose list has an element without a name is answered
\* ValidationError (400) and leaves objects and fields as they were: no Object
\* is created, no description changed, no Field of the list created or
\* updated.
C20_NamelessFieldCommitsNothing ==
    [][\A r \in Req :
         (UpsertStep(r) /\ WellAddressed(r) /\ NamelessAt(FieldsData(r)) # {}) =>
            /\ req'[r].res.cause = "ValidationError" /\ req'[r].res.status = 400
            /\ objects' = objects /\ fields' = fields]_vars

\* The request would have created the Object and its first Field; its second
\* element has no name, and the tables are empty.
C20_Witness ==
    \E r \in Req :
        /\ UpsertCall(r) /\ req[r].pc = "done" /\ req[r].res.status = 400
        /\ WellAddressed(r)
        /\ "object_description" \in DOMAIN req[r].arg
        /\ Len(FieldsData(r)) = 2
        /\ Naming(FieldsData(r), "f1") = {1} /\ NamelessAt(FieldsData(r)) = {2}
        /\ objects = {} /\ fields = {}

\* ------------------------------ properties of the reads of the metadata store
ListCall(r) == req[r].op = "list"

Listed(r) == ListCall(r) /\ req[r].pc = "done" /\ req[r].res.status = 200

Indices(seq) == 1..Len(seq)

Shown(v) == IF v = NoneText THEN "" ELSE v

\* Entry e of the listing shows Object o with all of its Fields.
Shows(e, o) ==
    LET own == {f \in fields : f.object_id = o.id}
    IN  /\ e.id = str(o.id)
        /\ e.connection_id = str(o.connection_id)
        /\ e.object_name = o.object_name
        /\ e.object_description = Shown(o.object_description)
        /\ Len(e.fields) = Cardinality(own)
        /\ \A f \in own : \E j \in Indices(e.fields) :
              /\ e.fields[j].id = str(f.id)
              /\ e.fields[j].field_name = f.field_name
              /\ e.fields[j].field_description = Shown(f.field_description)

\* C24: the listing answered to a user holds one entry for each Object whose
\* user_id is that user and no other entry, each entry with all the Fields of
\* its Object, and no description in it is null: a null one reads "".
C24_ListIsOwnObjects ==
    \A r \in Solo :
        Listed(r) =>
            LET body == req[r].res.body
                owned == {o \in objects : o.user_id = Caller(r)}
            IN  /\ Len(body) = Cardinality(owned)
                /\ \A o \in owned : \E i \in Indices(body) : Shows(body[i], o)
                /\ \A i \in Indices(body) :
                      /\ body[i].object_description # NoneText
                      /\ \A j \in Indices(body[i].fields) :
                            body[i].fields[j].field_description # NoneText

\* The caller's listing spans two connections, leaves out an Object of the
\* other user, and shows a null object description and a null field
\* description as "".
C24_Witness ==
    \E r \in Solo :
        /\ Listed(r)
        /\ \E i, k \in Indices(req[r].res.body) :
              /\ req[r].res.body[i].connection_id # req[r].res.body[k].connection_id
              /\ req[r].res.body[i].object_description = ""
              /\ \E j \in Indices(req[r].res.body[i].fields) :
                    req[r].res.body[i].fields[j].field_description = ""
        /\ \E o \in objects : o.user_id # Caller(r)
        /\ \E o \in objects : o.user_id = Caller(r) /\ o.object_description = NoneText

GenerateCall(r) == req[r].op = "generate"

\* The context has been built and the store is as the request read it.
Assembled(r) == GenerateCall(r) /\ req[r].pc = "generate"

\* The Objects of the caller's connection named in the request.
Scope(r) ==
    {o \in objects : /\ o.user_id = Caller(r)
                     /\ o.connection_id = req[r].arg.connection_id}

\* Entry e carries the description and the fields of Object o.
Carries(e, o) ==
    LET own == {f \in fields : f.object_id = o.id}
    IN  /\ e.object_name = o.object_name
        /\ e.object_description = o.object_description
        /\ Len(e.fields) = Cardinality(own)
        /\ \A f \in own : \E j \in Indices(e.fields) :
              /\ e.fields[j].field_name = f.field_name
              /\ e.fields[j].field_description = f.field_description

Blank(e) == e.object_description = NoneText /\ e.fields = <<>>

Entries(seq) == {seq[i] : i \in Indices(seq)}

\* C25: for every user and connection, the context built for the empty list
\* of names has the same entries as the one built for null; and a request
\* that sends [], null or no object_names gets one entry for each Object of
\* its (user, connection) and no other entry.
C25_EmptyListIsAll ==
    /\ \A u \in UserIds, c \in configs :
          Entries(objects_with_fields_data(objects, fields, u, c.id, JsonList(<<>>)))
            = Entries(objects_with_fields_data(objects, fields, u, c.id, JsonNull))
    /\ \A r \in Solo :
          (Assembled(r) /\ GetObjectNames(req[r].arg) \in {JsonNull, JsonList(<<>>)})
            => /\ Len(req[r].local) = Cardinality(Scope(r))
               /\ \A o \in Scope(r) : \E e \in Entries(req[r].local) : Carries(e, o)

\* A request with object_names = [] got the two Objects of its connection
\* while the store holds a third one elsewhere.
C25_Witness ==
    \E r \in Solo :
        /\ Assembled(r)
        /\ "object_names" \in DOMAIN req[r].arg
        /\ req[r].arg.object_names = JsonList(<<>>)
        /\ Len(req[r].local) = 2
        /\ Cardinality(objects) = 3

\* The names of a request that lists some.
Requested(r) == GetObjectNames(req[r].arg).items

Lists(r) ==
    /\ GetObjectNames(req[r].arg) # JsonNull
    /\ GetObjectNames(req[r].arg).json = "list"
    /\ GetObjectNames(req[r].arg).items # <<>>

Known(r, n) == \E o \in Scope(r) : o.object_name = n

\* C26: a generation request that passes the checks and lists names always
\* gets its context: one entry per listed name, in order; the entry of a name
\* that matches no Object of the (user, connection) carries that name, a null
\* description and no fields, and the entry of every other name carries the
\* description and fields of its Object.
C26_UnknownNameIsBlank ==
    [][\A r \in Solo :
         ( /\ GenerateCall(r) /\ req[r].pc = "body"
           /\ GenerateChecks(configs, Caller(r), req[r].arg) = NoRes
           /\ Lists(r)
           /\ req'[r] # req[r] )
         => /\ req'[r].pc = "generate"
            /\ Len(req'[r].local) = Len(Requested(r))
            /\ \A i \in Indices(Requested(r)) :
                  LET e == req'[r].local[i]
                  IN  /\ e.object_name = Requested(r)[i]
                      /\ ~Known(r, Requested(r)[i]) => Blank(e)
                      /\ Known(r, Requested(r)[i])
                           => \E o \in Scope(r) : Carries(e, o)]_vars

\* A request named a described Object and an unknown name: the first entry
\* is resolved, the second is blank.
C26_Witness ==
    \E r \in Solo :
        /\ Assembled(r) /\ Lists(r)
        /\ Len(req[r].local) = 2
        /\ req[r].local[1].object_description = "d1"
        /\ req[r].local[1].fields # <<>>
        /\ ~Known(r, Requested(r)[2])
        /\ Blank(req[r].local[2])

\* C27: every entry of a context is blank or carries the description and
\* fields of an Object of the caller under the requested connection; in
\* full-context mode every entry is of such an Object.
C27_ContextScoped ==
    \A r \in Solo :
        Assembled(r) =>
            /\ \A e \in Entries(req[r].local) :
                  Blank(e) \/ \E o \in Scope(r) : Carries(e, o)
            /\ ~Lists(r) =>
                  \A e \in Entries(req[r].local) : \E o \in Scope(r) : Carries(e, o)

\* The requested name is described under another connection of the caller
\* and under a connection of the other user, but not under the requested
\* one: its entry is blank.
C27_Witness ==
    \E r \in Solo :
        /\ Assembled(r) /\ Lists(r)
        /\ ~Known(r, Requested(r)[1])
        /\ Blank(req[r].local[1])
        /\ \E o \in objects : /\ o.user_id = Caller(r)
                              /\ o.connection_id # req[r].arg.connection_id
                              /\ o.object_name = Requested(r)[1]
                              /\ o.object_description = "d1"
        /\ \E o \in objects : /\ o.user_id # Caller(r)
                              /\ o.object_name = Requested(r)[1]

\* C28: the step that runs the checks and builds the context changes no
\* Connection, Object or Field row and takes no id from their generators.
C28_AssembleIsPureRead ==
    [][\A r \in Solo :
         (GenerateCall(r) /\ req[r].pc = "body" /\ req'[r] # req[r])
           => /\ configs' = configs /\ nextCfg' = nextCfg
              /\ objects' = objects /\ nextObj' = nextObj
              /\ fields' = fields /\ nextFld' = nextFld]_vars

\* A context with a blank entry was built over an empty store.
C28_Witness ==
    \E r \in Solo :
        /\ Assembled(r) /\ Lists(r)
        /\ objects = {} /\ fields = {}
        /\ \E e \in Entries(req[r].local) : Blank(e)

\* ------------------------------------------ properties of the query gateway
SchemaCall(r) == req[r].op = "schema"

Dots(name) == Cardinality({i \in 1..Len(name) : name[i] = "."})

\* C29: a schema request whose object_name is a non-empty string that is not
\* two segments around one dot is answered ValidationError (400), and the
\* step that answers it constructs no warehouse client and makes no call:
\* the log of the gateway stays as it was.
C29_BadNameNoWarehouseCall ==
    [][\A r \in Solo :
         ( /\ SchemaCall(r) /\ req[r].pc = "handler" /\ req'[r].pc = "done"
           /\ "object_name" \in DOMAIN req'[r].arg
           /\ req'[r].arg.object_name # <<>>
           /\ Dots(req'[r].arg.object_name) # 1 )
         => /\ req'[r].res.cause = "ValidationError"
            /\ req'[r].res.status = 400
            /\ bq' = bq]_vars

\* The owner of the connection asked for a name of three segments and was
\* refused for its format; nothing was sent to the warehouse.
C29_Witness ==
    \E r \in Solo :
        /\ SchemaCall(r) /\ req[r].pc = "done"
        /\ "object_name" \in DOMAIN req[r].arg
        /\ Dots(req[r].arg.object_name) = 2
        /\ "connection_id" \in DOMAIN req[r].arg
        /\ \E c \in configs : c.id = req[r].arg.connection_id /\ c.user_id = Caller(r)
        /\ req[r].res.message = "Invalid object_name format."
        /\ bq = <<>>
    /\ gemini_api_keys = {}

QueryCall(r) == req[r].op \in {"dry_run", "execute"}

\* The body names a connection of the caller and a text the warehouse accepts.
Runnable(r, data) ==
    /\ DOMAIN data = {"id", "query"}
    /\ \E c \in configs : c.id = data.id /\ c.user_id = Caller(r)
    /\ QueryValid(data.query)

\* C30: a dry run or a query of an accepted text on a connection of the
\* caller is answered with success whatever the gateway did before, with or
\* without a dry run of that text in its log; and no dry run or query
\* changes a Connection, Object, Field or Session row.
C30_GatewayStateless ==
    [][\A r \in Solo :
         (QueryCall(r) /\ req[r].pc = "handler" /\ req'[r].pc = "done")
           => /\ Runnable(r, req'[r].arg)
                   => /\ req'[r].res.status = 200
                      /\ bq' = Append(bq, BqCall(req[r].op, req'[r].arg.id,
                                                 req'[r].arg.query))
              /\ configs' = configs /\ objects' = objects /\ fields' = fields
              /\ sessions' = sessions]_vars

\* The log holds a query that no dry run preceded, then a dry run and a
\* query of the same text on the same connection; the last was answered 200.
C30_Witness ==
    \E r \in Solo :
        /\ req[r].op = "execute" /\ req[r].pc = "done" /\ req[r].res.status = 200
        /\ Len(bq) = 3
        /\ bq[1].call = "execute"
        /\ bq[2] = BqCall("dry_run", bq[1].connection_id, bq[1].arg)
        /\ bq[3] = bq[1]

\* C33: a generation request whose context is not empty is answered by the
\* outcome the adapter holds for its prompt: with a usable query, success
\* with the query and the prompt; with a prompt and no query, 422 with the
\* prompt; with a hard failure, an internal error and never 422.
C33_ThreeOutcomesDistinct ==
    [][\A r \in Solo :
         ( /\ GenerateCall(r) /\ req[r].pc = "generate" /\ req'[r].pc = "done"
           /\ req[r].local # <<>> )
         => LET outcome == req'[r].local.adapter
                res == req'[r].res
            IN  /\ outcome = "sql" =>
                      /\ res.status = 200
                      /\ DOMAIN res.body = {"generated_sql", "full_prompt_string"}
                /\ outcome = "blocked" =>
                      /\ res.status = 422
                      /\ DOMAIN res.body = {"full_prompt_string"}
                /\ outcome = "error" => res.status = 500]_vars

\* ------------------------------------- properties of the guarded routes
AuthStages == {"idle", "done", "ledger", "expiry", "principal"}

Unauthorized(res) ==
    res.cause \in {"MissingToken", "InvalidToken", "TokenExpired", "SessionRevoked",
                   "SessionExpired", "PrincipalNotFound"}

\* C35: a request is refused as unauthenticated only by a step of the
\* decorator, before its handler has run; a request goes from one check to
\* the next only when the check passes (signed and unexpired token, a
\* Session row for it, the row not expired, the user present), so a missing,
\* invalid, revoked or expired token never reaches the handler; and no step
\* of the decorator changes a Connection, Object, Field or Session row.
C35_UnauthenticatedChangesNothing ==
    [][\A r \in Solo :
         req'[r] # req[r] =>
           /\ req[r].pc \in AuthStages =>
                 /\ configs' = configs /\ objects' = objects
                 /\ fields' = fields /\ sessions' = sessions
           /\ (req'[r].pc = "done" /\ Unauthorized(req'[r].res)) =>
                 req[r].pc \in AuthStages
           /\ req'[r].pc = "ledger" =>
                 /\ req[r].pc \in {"idle", "done"}
                 /\ req'[r].tok # NoHeader /\ req'[r].tok.sig /\ req'[r].tok.exp > now
           /\ req'[r].pc = "expiry" =>
                 /\ req[r].pc = "ledger"
                 /\ \E s \in sessions : s.token = req[r].tok
           /\ req'[r].pc = "principal" =>
                 /\ req[r].pc = "expiry"
                 /\ ~is_expired(req[r].entry, now)
           /\ req'[r].pc = "handler" =>
                 /\ req[r].pc = "principal"
                 /\ get_jwt_identity(req[r].tok) \in users]_vars

\* A delete of a registered connection with the token of its owner, whose
\* Session row is gone, was refused and the connection is in place.
C35_Witness ==
    \E r \in Solo, c \in configs :
        /\ req[r].op = "delete" /\ req[r].pc = "done"
        /\ req[r].arg[1] = c.id
        /\ get_jwt_identity(req[r].tok) = c.user_id
        /\ req[r].res.cause = "SessionRevoked"
        /\ req[r].res.status = 401

GateCall(r) == req[r].op \in {"schema", "dry_run", "execute", "test"}

\* The handler of a warehouse route answers in this step.
GateStep(r) == GateCall(r) /\ req[r].pc = "handler" /\ req'[r].pc = "done"

\* The connection id a body names, 0 when it names none.
NamedConnection(r, data) ==
    IF req[r].op = "schema"
    THEN IF "connection_id" \in DOMAIN data THEN data.connection_id ELSE 0
    ELSE IF "id" \in DOMAIN data THEN data.id ELSE 0

\* The rest of the body passes the checks of its route.
WellFormed(r, data) ==
    /\ NamedConnection(r, data) # 0
    /\ req[r].op = "schema" =>
          "object_name" \in DOMAIN data /\ Dots(data.object_name) = 1
    /\ req[r].op \in {"dry_run", "execute"} =>
          "query" \in DOMAIN data /\ data.query # ""

\* C31: a step of fetch_schema, dry_run, execute or the connection test that
\* adds a use of the warehouse to the log adds one on a Connection whose
\* user_id is the caller; a body naming a connection of another user or one
\* that does not exist adds nothing to the log and, when the rest of it is
\* well formed, is answered NotFoundOrForbidden.
C31_ClientOnlyFromOwnConnection ==
    [][\A r \in Solo :
         GateStep(r) =>
           LET data == req'[r].arg
               own == {c \in configs : c.user_id = Caller(r)}
           IN  /\ bq' # bq =>
                     /\ Len(bq') = Len(bq) + 1
                     /\ \E c \in own : c.id = bq'[Len(bq')].connection_id
                     /\ bq'[Len(bq')].connection_id = NamedConnection(r, data)
               /\ (\A c \in own : c.id # NamedConnection(r, data)) =>
                     /\ bq' = bq
                     /\ WellFormed(r, data) =>
                           /\ req'[r].res.cause = "NotFoundOrForbidden"
                           /\ req'[r].res.status = 404]_vars

\* A dry run on a connection of the other user was answered 404 after the
\* owner had used that connection.
C31_Witness ==
    \E r \in Solo :
        /\ req[r].op = "dry_run" /\ req[r].pc = "done"
        /\ WellFormed(r, req[r].arg)
        /\ \E c \in configs : c.id = req[r].arg.id /\ c.user_id # Caller(r)
        /\ req[r].res.status = 404
        /\ bq # <<>>
        /\ \A i \in 1..Len(bq) : bq[i].call # "dry_run"

\* C32: fetch_schema, dry_run and execute on a connection of the caller whose
\* payload is no service-account key answer with the error of the client
\* construction and add no use of the warehouse to the log.
C32_MalformedKeyFailsFast ==
    [][\A r \in Solo :
         ( /\ GateStep(r) /\ req[r].op \in {"schema", "dry_run", "execute"}
           /\ WellFormed(r, req'[r].arg)
           /\ \E c \in configs : /\ c.id = NamedConnection(r, req'[r].arg)
                                 /\ c.user_id = Caller(r)
                                 /\ c.gcp_key_json = "malformed" )
         => /\ req'[r].res.status = 400
            /\ req'[r].res.message = "Error initializing BigQuery client from key"
            /\ bq' = bq]_vars

\* A query on the connection with the bad payload was refused; the log holds
\* only the uses of the other connection.
C32_Witness ==
    \E r \in Solo :
        /\ req[r].op = "execute" /\ req[r].pc = "done"
        /\ WellFormed(r, req[r].arg)
        /\ \E c \in configs : /\ c.id = req[r].arg.id /\ c.user_id = Caller(r)
                              /\ c.gcp_key_json = "malformed"
        /\ req[r].res.status = 400
        /\ bq # <<>>
        /\ \A i \in 1..Len(bq) : bq[i].connection_id # req[r].arg.id

\* C34: a dry run or a query that the warehouse refuses is answered with a
\* status other than the one the same route gives to a body without its
\* parameters, and other than those of NotFoundOrForbidden and Conflict.
C34_UpstreamFailureDistinct ==
    [][\A r \in Solo :
         ( /\ GateStep(r) /\ req[r].op \in {"dry_run", "execute"}
           /\ bq' # bq
           /\ ~QueryValid(req'[r].arg.query) )
         => /\ req'[r].res.status
                 # RunQuery(bq, configs, Caller(r), EmptyDict, req[r].op).res.status
            /\ req'[r].res.status \notin {404, 409}]_vars

TypeOK ==
    /\ now \in 0..MaxTime
    /\ users \subseteq UserIds
    /\ \A r \in Req : req[r].pc \in {"idle", "ledger", "expiry", "principal", "handler",
                                     "insert", "delete", "body", "flush", "commit",
                                     "generate", "done"}

\* C36: no operation under a bearer token is served for a token whose Session
\* row is gone: a request that arrived with an issued token that had no row
\* in the sessions table never reaches its handler and ends in one of the
\* authentication failures, the two settings routes included.
Served(r) ==
    \/ req[r].pc \notin AuthStages
    \/ req[r].pc = "done" /\ ~Unauthorized(req[r].res)

C36_LedgerCheckedEverywhere ==
    \A r \in Req : req[r].late => ~Served(r)

\* C37: the principal id a handler works with is the identity claim of the
\* token, and it equals the user_id of the token's Session row: every row of
\* the ledger belongs to the user its token names, the row the decorator
\* fetched is a row of that user, and a served request answers for that user.
C37_PrincipalIsSessionUser ==
    /\ \A s \in sessions : s.user_id = get_jwt_identity(s.token)
    /\ \A r \in Req :
          /\ req[r].pc = "expiry" =>
                /\ req[r].entry # NoRow
                /\ req[r].entry.token = req[r].tok
                /\ req[r].entry.user_id = get_jwt_identity(req[r].tok)
          /\ req[r].pc \in {"principal", "handler"} =>
                \E i \in issued : i.token = req[r].tok
                                  /\ i.owner = get_jwt_identity(req[r].tok)
          /\ (req[r].pc = "done" /\ req[r].op = "data" /\ req[r].res.status = 200) =>
                /\ \E i \in issued : i.token = req[r].tok
                                     /\ i.owner = req[r].res.user_id
                /\ \A s \in sessions : s.token = req[r].tok
                                          => s.user_id = req[r].res.user_id

\* The second user's token is served while both users hold Session rows.
C37_Witness ==
    \E r \in Req :
        /\ req[r].pc = "done" /\ req[r].op = "data" /\ req[r].res.status = 200
        /\ req[r].res.user_id = "u2"
        /\ \E s \in sessions : s.token = req[r].tok /\ s.user_id = "u2"
        /\ \E s \in sessions : s.user_id = "u1"

\* C38: every Object belongs to the user who owns the Connection it is filed
\* under, and an upsert naming a connection that is not the caller's is
\* answered NotFoundOrForbidden and leaves objects and fields as they were.
UnderOwnersConnection(o) ==
    \E c \in configs : c.id = o.connection_id /\ c.user_id = o.user_id

C38_ObjectUnderOwnersConnection ==
    /\ [](\A o \in objects : UnderOwnersConnection(o))
    /\ [][\A r \in Req :
            UpsertStep(r) =>
              LET data == req[r].arg
                  own == {c \in configs : c.user_id = Caller(r)}
              IN  /\ (\A c \in own : c.id # data.connection_id)
                        => /\ req'[r].res.cause = "NotFoundOrForbidden"
                           /\ req'[r].res.status = 404
                           /\ UNCHANGED <<objects, fields, nextObj, nextFld>>
                  /\ req'[r].res.status = 200
                        => /\ \E c \in own : c.id = data.connection_id
                           /\ \E o \in objects' :
                                 /\ o.id = req'[r].res.body.object_id
                                 /\ o.user_id = Caller(r)
                                 /\ o.connection_id = data.connection_id]_vars

\* The second user was refused under the first user's connection, which
\* holds an object of the first user.
C38_Witness ==
    \E r \in Req :
        /\ req[r].pc = "done" /\ req[r].op = "upsert"
        /\ Caller(r) = "u2"
        /\ req[r].res.cause = "NotFoundOrForbidden"
        /\ \E c \in configs : c.id = req[r].arg.connection_id /\ c.user_id = "u1"
        /\ \E o \in objects : o.connection_id = req[r].arg.connection_id
                              /\ o.user_id = "u1"

\* C39: login answers an email that matches no user exactly as it answers a
\* known email with a wrong password: same status, same message, no token
\* and no user id, so the answer does not tell whether the email is
\* registered.
CredentialStep(r) ==
    /\ LoginStep(r)
    /\ req'[r].arg[1] # "" /\ req'[r].arg[2] # ""

Registered(email) == \E u \in users : EmailOf(u) = email

C39_LoginHidesRegistration ==
    [][\A r \in Req :
         CredentialStep(r) =>
           LET email == req'[r].arg[1]
               password == req'[r].arg[2]
               wrong == \E u \in users : EmailOf(u) = email
                                         /\ ~check_password(u, password)
           IN  /\ ~Registered(email) => req'[r].res = WrongPasswordResp
               /\ wrong => req'[r].res = WrongPasswordResp
               /\ (~Registered(email) \/ wrong) =>
                     /\ req'[r].res.status = 401
                     /\ req'[r].res.token = NoHeader
                     /\ req'[r].res.user_id = "none"
                     /\ UNCHANGED <<sessions, issued>>]_vars

\* A login with an email no user has was refused.
C39_Witness ==
    \E r \in Req :
        /\ req[r].pc = "done" /\ req[r].op = "login"
        /\ req[r].arg[1] = "z@x" /\ req[r].arg[2] = "p1"
        /\ req[r].res.status = 401

====
